---- MODULE Spec2Model ----
(***************************************************************************)
(* Student portal of piamtech-frappe-education: the Fees page with its     *)
(* payment dialog (Fees.vue, FeesPaymentDialog.vue), the Reports page      *)
(* (Reports.vue) and the awards page (IndividualAwards.vue), modelled as   *)
(* state machines of their reactive state and their event handlers, and    *)
(* the client scripts of the School Term Result form and of the Bulk       *)
(* School Term Class Result Generator form, modelled as state machines of  *)
(* the form document and the requests in flight, as is the client script   *)
(* of the Assessment Plan form.                                            *)
(*                                                                         *)
(* JavaScript values: a number that may be null is an option value, <<>>   *)
(* for null/undefined and <<n>> for the number n; strings are strings and  *)
(* the empty string is the only falsy one.  Money is counted in whole      *)
(* currency units.                                                         *)
(***************************************************************************)
EXTENDS Integers, Sequences, FiniteSets, TLC

\* ------------------------------------------------------------------ bounds
\* largest amount the user types into the partial-payment field
MaxAmount == 3
\* largest outstanding_amount the server reports for an invoice
MaxOutstanding == 2
\* initiate_payment requests in flight when proceedToPayment is called as a
\* function (SpecCall); the buttons allow one
MaxPending == 1
\* reports in a list of the server (SpecReportLists)
MaxReports == 3
\* mount and Refresh events of the Reports page
MaxLoads == 2
\* showAlert timers pending at a time
MaxTimers == 2
\* print-format requests in flight at a time
MaxPrints == 1
\* field changes of the School Term Result form
MaxTriggers == 2
\* mount and Refresh events of the awards page
MaxAwardLoads == 3
\* saves of a Bulk School Term Class Result Generator document
MaxSaves == 2
\* invoices in a response whose order is looked at (SpecInvoices)
MaxInvoices == 3
\* characters of the short program names that are classified
MaxNameLen == 3
\* changes of student_group on the Assessment Plan form
MaxPlanTriggers == 3

\* ------------------------------------------------------- JavaScript values
Null == <<>>
Num(n) == <<n>>

\* a value that may be undefined: Null, or Some(v)
Some(v) == <<v>>

\* x || [] for a table that may be undefined
OrEmpty(x) == IF x = Null THEN <<>> ELSE x[1]

\* x || 0 for a number that may be null
OrZero(x) == IF x = Null THEN 0 ELSE x[1]

\* truthiness of a number that may be null: null and 0 are falsy
TruthyNum(x) == x # Null /\ x[1] # 0

\* truthiness of a string
TruthyStr(s) == s # ""

\* a || b for strings
OrStr(a, b) == IF TruthyStr(a) THEN a ELSE b

\* ------------------------------------------------------------ data domains
\* the logged-in student (studentStore); student_email_id is empty so that
\* the fallback to email is exercised
studentInfo == [name |-> "STU-1", student_email_id |-> "",
                email |-> "student@school.ng", phone |-> "0800"]

EmailInputs == {"", "parent@home.ng"}
PhoneInputs == {"", "0800"}
AmountInputs == {Null} \cup {Num(n) : n \in -1..MaxAmount}

\* invoices as the server returns them
InvoiceNames == <<"INV-1", "INV-2", "INV-3", "INV-4">>
InvoiceStatuses == {"Overdue", "Paid"}
ServerAmounts == {Null} \cup {Num(n) : n \in 1..MaxOutstanding}
ServerInvoice == [status : InvoiceStatuses, outstanding_amount : ServerAmounts]
\* a response lists the first k invoices, k = 0, 1 or 2
InvoiceResponses ==
    {<<>>}
    \cup {<<[invoice |-> InvoiceNames[1], status |-> a.status,
             outstanding_amount |-> a.outstanding_amount]>> : a \in ServerInvoice}
    \cup {<<[invoice |-> InvoiceNames[1], status |-> "Paid",
             outstanding_amount |-> Null],
            [invoice |-> InvoiceNames[2], status |-> b.status,
             outstanding_amount |-> b.outstanding_amount]>> : b \in ServerInvoice}

\* the statuses of the invoice record and one that is none of them
AllStatuses == {"Overdue", "Unpaid", "Partly Paid", "Paid", "Draft"}
\* every response of at most MaxInvoices invoices, the i-th named
\* InvoiceNames[i], each with any status
StatusResponses ==
    UNION {{[i \in 1..n |-> [invoice |-> InvoiceNames[i], status |-> st[i],
                             outstanding_amount |-> Num(1)]]
            : st \in [1..n -> AllStatuses]} : n \in 0..MaxInvoices}

\* the error codes of the payment callback and one code that is not mapped
ErrorCodes == {"verification_failed", "payment_processing_failed",
               "payment_failed", "verification_error", "unknown_code"}
NoParam == "(absent)"
Queries == [success : BOOLEAN, error : ErrorCodes \cup {NoParam}]
CleanUrl == [success |-> FALSE, error |-> NoParam]

NoRow == [invoice |-> "", status |-> "", amount_outstanding_raw |-> 0]

VARIABLES
    \* ---- Fees.vue
    url,                \* query parameters of window.location
    mounted,            \* onMounted has run
    reloadTimer,        \* the 1 s timer of the success callback
    invoicesResource,   \* [loading, error, inFlight] of the list resource
    tableData,          \* [rows]
    currentRow,         \* the row handed to the dialog, NoRow for null
    showPaymentDialog,
    redirected,         \* window.location.href was set to the gateway
    href,               \* the address it was set to, Null before
    toasts,             \* toasts created by the latest step
    emitted,            \* events the dialog emitted to the page in the latest step
    \* ---- FeesPaymentDialog.vue (one instance while currentRow is set)
    isProcessing,
    paymentType,
    paymentAmount,
    paymentError,
    billingDetails,
    pendingPayments,    \* initiate_payment requests without a response
    \* ---- Reports.vue
    reportsMounted,     \* onMounted has run
    isLoading,
    isRefreshing,
    alertMessage,
    alertType,
    allReports,
    filterYear,
    filterTerm,
    filterProgram,
    printingReports,    \* the report names whose flag is true
    loadsInFlight,      \* report requests without a response
    loadTriggers,       \* mount and Refresh events so far
    loadRequests,       \* report requests sent so far
    alertTimers,        \* pending 5 s timers of showAlert
    printsInFlight,     \* the reports whose print format is being fetched
    printViews,         \* print views opened by the latest step
    renderPending,      \* a state change waits for the render that follows it
    \* ---- School Term Result form (client script)
    doc,                \* frm.doc: the four fields the script listens to
    psychomotor_skills, \* child table of the form
    affective_skills,   \* child table of the form
    enrollmentCalls,    \* Program Enrollment requests without a response
    settingsCalls,      \* School Settings requests without a response
    schoolSettings,     \* what the server returns for School Settings
    skillTriggers,      \* field changes so far
    enrollmentSent,     \* Program Enrollment requests sent, per field change
    settingsSent,       \* School Settings requests sent, per field change
    msgprints,          \* frappe.msgprint messages shown by the latest step
    \* ---- Bulk School Term Class Result Generator form (client script)
    bulkDoc,            \* frm.doc: the fields the script reads
    bulkIsNew,          \* frm.is_new()
    bulkMsgprint,       \* the message of validate: "none", "open" or "closed"
    bulkMsgGroup,       \* the student group named in that message
    bulkViewButton,     \* the View Generated Results button is on the form
    route_options,      \* frappe.route_options, Null until the button is used
    bulkSaves,          \* saves of the document that went through
    \* ---- IndividualAwards.vue
    awardsMounted,      \* onMounted has run
    awardsIsLoading,    \* isLoading of the awards page
    awardsIsRefreshing, \* isRefreshing of the awards page
    allAwards,
    awardsFilterYear,   \* filterYear of the awards page
    filterCategory,
    errorMessage,
    awardLoads,         \* award requests without a response
    awardTriggers,      \* mount and Refresh events so far
    awardRequests,      \* award requests sent so far
    \* ---- isSecondaryProgram (Reports.vue) applied to a program name
    programName,        \* the characters of the program
    isSecondary,        \* Null before the call, then Some(result)
    \* ---- Assessment Plan form (client script)
    planDoc,            \* frm.doc: student_group and maximum_assessment_score
    assessment_criteria, \* child table of the form
    policyCalls,        \* get_policy_details requests without a response
    planTriggers,       \* changes of student_group so far
    planCleared         \* the tables clear_table was called for in the latest step

feesVars == <<url, mounted, reloadTimer, invoicesResource, tableData,
              currentRow, showPaymentDialog, redirected, href, toasts, emitted>>
dialogVars == <<isProcessing, paymentType, paymentAmount, paymentError,
                billingDetails, pendingPayments>>
reportsVars == <<reportsMounted, isLoading, isRefreshing, alertMessage, alertType,
                 allReports, filterYear, filterTerm, filterProgram, printingReports,
                 loadsInFlight, loadTriggers, loadRequests, alertTimers,
                 printsInFlight, printViews, renderPending>>
skillsVars == <<doc, psychomotor_skills, affective_skills, enrollmentCalls,
                settingsCalls, schoolSettings, skillTriggers, enrollmentSent,
                settingsSent, msgprints>>
bulkVars == <<bulkDoc, bulkIsNew, bulkMsgprint, bulkMsgGroup, bulkViewButton,
              route_options, bulkSaves>>
awardsVars == <<awardsMounted, awardsIsLoading, awardsIsRefreshing, allAwards,
                awardsFilterYear, filterCategory, errorMessage, awardLoads,
                awardTriggers, awardRequests>>
classifyVars == <<programName, isSecondary>>
planVars == <<planDoc, assessment_criteria, policyCalls, planTriggers, planCleared>>
vars == <<feesVars, dialogVars, reportsVars, skillsVars, bulkVars, awardsVars,
          classifyVars, planVars>>

\* what a handler of one page leaves alone: the state of the other pages
notFees == <<reportsVars, skillsVars, bulkVars, awardsVars, classifyVars,
             planVars>>
notReports == <<feesVars, dialogVars, skillsVars, bulkVars,
                awardsVars, classifyVars, planVars>>
notSkills == <<feesVars, dialogVars, reportsVars, bulkVars,
               awardsVars, classifyVars, planVars>>
notBulk == <<feesVars, dialogVars, reportsVars, skillsVars,
             awardsVars, classifyVars, planVars>>
notClassify == <<feesVars, dialogVars, reportsVars, skillsVars, bulkVars,
                 awardsVars, planVars>>
notAwards == <<feesVars, dialogVars, reportsVars, skillsVars,
               bulkVars, classifyVars, planVars>>
notPlan == <<feesVars, dialogVars, reportsVars, skillsVars, bulkVars,
             awardsVars, classifyVars>>

\* ====================================================================
\* FeesPaymentDialog.vue
\* ====================================================================

\* parseFloat(props.row.amount_outstanding_raw) || 0; the raw value is the
\* number stored by the list's onSuccess, which parseFloat returns as it is
Outstanding(row) == row.amount_outstanding_raw

\* paymentError: the text and, for the second message, the balance it quotes
NoError == [message |-> "", balance |-> 0]

\* validatePaymentAmount without the comparison with the outstanding balance
validatePaymentAmount_NoUpperBound(amount, row) ==
    IF ~TruthyNum(amount) \/ OrZero(amount) <= 0
    THEN [ok |-> FALSE,
          error |-> [message |-> "Amount must be greater than zero", balance |-> 0]]
    ELSE [ok |-> TRUE, error |-> NoError]

\* validatePaymentAmount: the value it returns and the paymentError it leaves
validatePaymentAmount(amount, row) ==
    IF ~TruthyNum(amount) \/ OrZero(amount) <= 0
    THEN [ok |-> FALSE,
          error |-> [message |-> "Amount must be greater than zero", balance |-> 0]]
    ELSE IF amount[1] > Outstanding(row)
    THEN [ok |-> FALSE,
          error |-> [message |-> "Amount cannot exceed outstanding balance",
                     balance |-> Outstanding(row)]]
    ELSE [ok |-> TRUE, error |-> NoError]

\* isFormValid without the phone number among the required fields
isFormValid_NoPhone(type, billing, amount, row, error) ==
    IF type = "Full"
    THEN [valid |-> TruthyStr(billing.email), error |-> error]
    ELSE IF TruthyStr(billing.email) /\ TruthyNum(amount) /\ amount[1] > 0
         THEN [valid |-> validatePaymentAmount(amount, row).ok,
               error |-> validatePaymentAmount(amount, row).error]
         ELSE [valid |-> FALSE, error |-> error]

\* isFormValid: its truth value and the paymentError it leaves; && stops at
\* the first falsy operand, so validatePaymentAmount runs (and rewrites
\* paymentError) only when everything before it is truthy
isFormValid(type, billing, amount, row, error) ==
    IF type = "Full"
    THEN [valid |-> TruthyStr(billing.email) /\ TruthyStr(billing.mobile_number),
          error |-> error]
    ELSE IF TruthyStr(billing.email) /\ TruthyStr(billing.mobile_number)
            /\ TruthyNum(amount) /\ amount[1] > 0
         THEN [valid |-> validatePaymentAmount(amount, row).ok,
               error |-> validatePaymentAmount(amount, row).error]
         ELSE [valid |-> FALSE, error |-> error]

\* The Proceed button evaluates isFormValid() on every render of the open
\* dialog (:disabled="!isFormValid() || isProcessing"): the paymentError
\* left behind by that evaluation
RenderedError(show, type, billing, amount, row, error) ==
    IF show /\ row # NoRow
    THEN isFormValid(type, billing, amount, row, error).error
    ELSE error

\* the Proceed button disabled by the form alone
ProceedDisabled_IgnoresProcessing ==
    ~isFormValid(paymentType, billingDetails, paymentAmount, currentRow,
                 paymentError).valid

\* :disabled of the Proceed to Payment button
ProceedDisabled ==
    \/ ~isFormValid(paymentType, billingDetails, paymentAmount, currentRow,
                    paymentError).valid
    \/ isProcessing

\* :disabled of the Cancel button
CancelDisabled == isProcessing

DialogOpen == mounted /\ ~redirected /\ showPaymentDialog /\ currentRow # NoRow

\* the state the component's setup creates
SetupBilling ==
    [email |-> OrStr(studentInfo.student_email_id, OrStr(studentInfo.email, "")),
     mobile_number |-> OrStr(studentInfo.phone, "")]

\* click on Full Payment / Partial Payment
SelectPaymentType(t) ==
    /\ DialogOpen
    /\ paymentType' = t
    /\ paymentError' = RenderedError(TRUE, t, billingDetails, paymentAmount,
                                     currentRow, paymentError)
    /\ toasts' = <<>>
    /\ UNCHANGED <<isProcessing, paymentAmount, billingDetails, pendingPayments>>
    /\ UNCHANGED <<url, mounted, reloadTimer, invoicesResource, tableData,
                   currentRow, showPaymentDialog, redirected, href>>
    /\ emitted' = <<>>
    /\ UNCHANGED notFees

\* typing into the amount field, which is rendered in Partial mode only:
\* v-model.number stores the number and @change runs validatePaymentAmount
EnterAmount(a) ==
    /\ DialogOpen
    /\ paymentType = "Partial"
    /\ paymentAmount' = a
    /\ paymentError' = RenderedError(TRUE, paymentType, billingDetails, a, currentRow,
                                     validatePaymentAmount(a, currentRow).error)
    /\ toasts' = <<>>
    /\ UNCHANGED <<isProcessing, paymentType, billingDetails, pendingPayments>>
    /\ UNCHANGED <<url, mounted, reloadTimer, invoicesResource, tableData,
                   currentRow, showPaymentDialog, redirected, href>>
    /\ emitted' = <<>>
    /\ UNCHANGED notFees

\* typing into the contact fields
EditBilling(e, p) ==
    /\ DialogOpen
    /\ billingDetails' = [email |-> e, mobile_number |-> p]
    /\ billingDetails' # billingDetails
    /\ paymentError' = RenderedError(TRUE, paymentType, billingDetails',
                                     paymentAmount, currentRow, paymentError)
    /\ toasts' = <<>>
    /\ UNCHANGED <<isProcessing, paymentType, paymentAmount, pendingPayments>>
    /\ UNCHANGED <<url, mounted, reloadTimer, invoicesResource, tableData,
                   currentRow, showPaymentDialog, redirected, href>>
    /\ emitted' = <<>>
    /\ UNCHANGED notFees

\* the request with amountToPay = paymentAmount.value || outstanding
PaymentRequest_TypedFirst(type, amount, row, billing) ==
    [sales_invoice |-> row.invoice,
     payment_amount |-> IF TruthyNum(amount) THEN amount[1] ELSE Outstanding(row),
     email |-> billing.email]

\* the request proceedToPayment sends
PaymentRequest(type, amount, row, billing) ==
    [sales_invoice |-> row.invoice,
     payment_amount |-> IF type = "Full" THEN Outstanding(row) ELSE amount[1],
     email |-> billing.email]

\* proceedToPayment up to its await
proceedToPayment ==
    LET v == isFormValid(paymentType, billingDetails, paymentAmount, currentRow,
                         paymentError)
    IN  IF ~v.valid
        THEN /\ toasts' = <<[title |-> "Validation Error",
                             description |-> "Please fill in all required fields correctly"]>>
             /\ paymentError' = v.error
             /\ UNCHANGED <<isProcessing, pendingPayments>>
        ELSE /\ isProcessing' = TRUE
             /\ pendingPayments' = Append(pendingPayments,
                    PaymentRequest(paymentType, paymentAmount, currentRow, billingDetails))
             /\ paymentError' = v.error
             /\ toasts' = <<>>

\* click on Proceed to Payment, which the template disables while the form
\* is invalid or a payment is processing
ClickProceed ==
    /\ DialogOpen
    /\ ~ProceedDisabled
    /\ proceedToPayment
    /\ UNCHANGED <<paymentType, paymentAmount, billingDetails>>
    /\ UNCHANGED <<url, mounted, reloadTimer, invoicesResource, tableData,
                   currentRow, showPaymentDialog, redirected, href>>
    /\ emitted' = <<>>
    /\ UNCHANGED notFees

\* proceedToPayment called whatever the button shows
CallProceed ==
    /\ DialogOpen
    /\ Len(pendingPayments) < MaxPending
    /\ proceedToPayment
    /\ UNCHANGED <<paymentType, paymentAmount, billingDetails>>
    /\ UNCHANGED <<url, mounted, reloadTimer, invoicesResource, tableData,
                   currentRow, showPaymentDialog, redirected, href>>
    /\ emitted' = <<>>
    /\ UNCHANGED notFees

PaymentOutcomes == {"success", "refused", "refused_with_message", "threw"}

\* result.authorization_url of a result with success
AuthorizationUrls == {"https://checkout.paystack.com/a1",
                      "https://checkout.paystack.com/b2"}

\* proceedToPayment without the reset of isProcessing after a failure
proceedToPaymentSettled_StaysProcessing(outcome, authorization_url) ==
    /\ mounted
    /\ pendingPayments # <<>>
    /\ pendingPayments' = Tail(pendingPayments)
    /\ IF outcome = "success"
       THEN /\ redirected' = TRUE
            /\ href' = Some(authorization_url)
            /\ toasts' = <<>>
            /\ UNCHANGED isProcessing
       ELSE /\ toasts' = <<IF outcome = "threw"
                           THEN [title |-> "Error",
                                 description |-> "Failed to process payment"]
                           ELSE [title |-> "Payment Error",
                                 description |->
                                    IF outcome = "refused_with_message"
                                    THEN "(result.message)"
                                    ELSE "Failed to initiate payment"]>>
            /\ UNCHANGED isProcessing
            /\ UNCHANGED <<redirected, href>>
    /\ UNCHANGED <<paymentType, paymentAmount, paymentError, billingDetails>>
    /\ UNCHANGED <<url, mounted, reloadTimer, invoicesResource, tableData,
                   currentRow, showPaymentDialog>>
    /\ emitted' = <<>>
    /\ UNCHANGED notFees

\* proceedToPayment after its await, for the response to the oldest request
proceedToPaymentSettled(outcome, authorization_url) ==
    /\ mounted
    /\ pendingPayments # <<>>
    /\ pendingPayments' = Tail(pendingPayments)
    /\ IF outcome = "success"
       THEN /\ redirected' = TRUE
            /\ href' = Some(authorization_url)
            /\ toasts' = <<>>
            /\ UNCHANGED isProcessing
       ELSE /\ toasts' = <<IF outcome = "threw"
                           THEN [title |-> "Error",
                                 description |-> "Failed to process payment"]
                           ELSE [title |-> "Payment Error",
                                 description |->
                                    IF outcome = "refused_with_message"
                                    THEN "(result.message)"
                                    ELSE "Failed to initiate payment"]>>
            /\ isProcessing' = FALSE
            /\ UNCHANGED <<redirected, href>>
    /\ UNCHANGED <<paymentType, paymentAmount, paymentError, billingDetails>>
    /\ UNCHANGED <<url, mounted, reloadTimer, invoicesResource, tableData,
                   currentRow, showPaymentDialog>>
    /\ emitted' = <<>>
    /\ UNCHANGED notFees

\* the response to the oldest initiate_payment request arrives
PaymentResponse(outcome) ==
    \E authorization_url \in AuthorizationUrls :
       proceedToPaymentSettled(outcome, authorization_url)

\* the dialog closes (its close function, Escape or a click outside):
\* update:modelValue
CloseDialog ==
    /\ DialogOpen
    /\ emitted' = <<[event |-> "update:modelValue", value |-> FALSE]>>
    \* v-model="showPaymentDialog" of the page
    /\ showPaymentDialog' = emitted'[1].value
    /\ toasts' = <<>>
    /\ UNCHANGED dialogVars
    /\ UNCHANGED <<url, mounted, reloadTimer, invoicesResource, tableData,
                   currentRow, redirected, href>>
    /\ UNCHANGED notFees

\* click on Cancel, which the template disables while a payment is
\* processing: the close function of the dialog
ClickCancel ==
    /\ ~CancelDisabled
    /\ CloseDialog

\* ====================================================================
\* Fees.vue
\* ====================================================================

\* the table with the messages of payment_failed and verification_failed swapped
errorMessages_Swapped(code) ==
    CASE code = "payment_failed" ->
            "Payment verification failed. Please contact support."
      [] code = "payment_processing_failed" ->
            "Error processing your payment. Please try again."
      [] code = "verification_failed" -> "Payment was declined. Please try again."
      [] code = "verification_error" ->
            "An error occurred during verification. Please try again."
      [] OTHER -> ""

errorMessages(code) ==
    CASE code = "verification_failed" ->
            "Payment verification failed. Please contact support."
      [] code = "payment_processing_failed" ->
            "Error processing your payment. Please try again."
      [] code = "payment_failed" -> "Payment was declined. Please try again."
      [] code = "verification_error" ->
            "An error occurred during verification. Please try again."
      [] OTHER -> ""

SuccessToast == [title |-> "Payment Successful!",
                 description |-> "Your payment has been processed. Fees updated."]
ErrorToast(code) ==
    [title |-> "Payment Error",
     description |-> OrStr(errorMessages(code), "An error occurred during payment.")]

\* invoicesResource.reload(): one more request, loading set, error cleared
Reload(res) == [loading |-> TRUE, error |-> FALSE, inFlight |-> res.inFlight + 1]

\* onMounted: the payment callback
onMounted ==
    /\ ~mounted
    /\ mounted' = TRUE
    /\ toasts' = (IF url.success THEN <<SuccessToast>> ELSE <<>>)
                 \o (IF url.error # NoParam THEN <<ErrorToast(url.error)>> ELSE <<>>)
    /\ reloadTimer' = IF url.success THEN "scheduled" ELSE reloadTimer
    /\ url' = IF url.error # NoParam THEN CleanUrl ELSE url
    /\ UNCHANGED <<invoicesResource, tableData, currentRow, showPaymentDialog,
                   redirected, href>>
    /\ UNCHANGED dialogVars
    /\ emitted' = <<>>
    /\ UNCHANGED notFees

\* the timer callback without the reload
ReloadTimerFires_NoReload ==
    /\ reloadTimer = "scheduled"
    /\ reloadTimer' = "done"
    /\ url' = CleanUrl
    /\ toasts' = <<>>
    /\ UNCHANGED <<mounted, invoicesResource, tableData, currentRow,
                   showPaymentDialog, redirected, href>>
    /\ UNCHANGED dialogVars
    /\ emitted' = <<>>
    /\ UNCHANGED notFees

\* the callback of setTimeout(..., 1000)
ReloadTimerFires ==
    /\ reloadTimer = "scheduled"
    /\ reloadTimer' = "done"
    /\ invoicesResource' = Reload(invoicesResource)
    /\ url' = CleanUrl
    /\ toasts' = <<>>
    /\ UNCHANGED <<mounted, tableData, currentRow, showPaymentDialog, redirected, href>>
    /\ UNCHANGED dialogVars
    /\ emitted' = <<>>
    /\ UNCHANGED notFees

\* statusOrder[status] || 99, which takes the 0 of Overdue for missing
statusOrder_FalsyOverdue(status) ==
    CASE status = "Unpaid" -> 1
      [] status = "Partly Paid" -> 2
      [] status = "Paid" -> 3
      [] OTHER -> 99

\* statusOrder[status] ?? 99
statusOrder(status) ==
    CASE status = "Overdue" -> 0
      [] status = "Unpaid" -> 1
      [] status = "Partly Paid" -> 2
      [] status = "Paid" -> 3
      [] OTHER -> 99

\* invoices.map(...): the row of an invoice (the formatted strings are left out)
InvoiceRow(invoice) ==
    [invoice |-> invoice.invoice, status |-> invoice.status,
     amount_outstanding_raw |-> OrZero(invoice.outstanding_amount)]

\* Array.prototype.sort with (a, b) => statusA - statusB: a stable sort,
\* written as the insertion of each row after the rows that are not greater
RECURSIVE InsertByStatus(_, _)
InsertByStatus(row, sorted) ==
    IF sorted = <<>> THEN <<row>>
    ELSE IF statusOrder(Head(sorted).status) - statusOrder(row.status) <= 0
         THEN <<Head(sorted)>> \o InsertByStatus(row, Tail(sorted))
         ELSE <<row>> \o sorted

RECURSIVE SortByStatus(_)
SortByStatus(rows) ==
    IF rows = <<>> THEN <<>>
    ELSE InsertByStatus(rows[Len(rows)], SortByStatus(SubSeq(rows, 1, Len(rows) - 1)))

\* onSuccess of the list resource
InvoicesLoaded(response) ==
    /\ mounted
    /\ invoicesResource.inFlight > 0
    /\ invoicesResource' = [invoicesResource EXCEPT !.loading = FALSE,
                                                    !.inFlight = @ - 1]
    /\ tableData' = [rows |-> SortByStatus([i \in 1..Len(response) |->
                                              InvoiceRow(response[i])])]
    /\ toasts' = <<>>
    /\ UNCHANGED <<url, mounted, reloadTimer, currentRow, showPaymentDialog,
                   redirected, href>>
    /\ UNCHANGED dialogVars
    /\ emitted' = <<>>
    /\ UNCHANGED notFees

\* onError of the list resource
InvoicesFailed ==
    /\ mounted
    /\ invoicesResource.inFlight > 0
    /\ invoicesResource' = [loading |-> FALSE, error |-> TRUE,
                            inFlight |-> invoicesResource.inFlight - 1]
    /\ toasts' = <<[title |-> "Error loading fees", description |-> ""]>>
    /\ UNCHANGED <<url, mounted, reloadTimer, tableData, currentRow,
                   showPaymentDialog, redirected, href>>
    /\ UNCHANGED dialogVars
    /\ emitted' = <<>>
    /\ UNCHANGED notFees

PageUsable == mounted /\ ~redirected /\ ~showPaymentDialog

\* the Try Again button of the error state
TryAgain ==
    /\ PageUsable
    /\ ~invoicesResource.loading /\ invoicesResource.error
    /\ invoicesResource' = Reload(invoicesResource)
    /\ toasts' = <<>>
    /\ UNCHANGED <<url, mounted, reloadTimer, tableData, currentRow,
                   showPaymentDialog, redirected, href>>
    /\ UNCHANGED dialogVars
    /\ emitted' = <<>>
    /\ UNCHANGED notFees

\* the table is rendered when the resource is neither loading nor in error
TableShown ==
    /\ ~invoicesResource.loading /\ ~invoicesResource.error
    /\ Len(tableData.rows) > 0

\* Pay Now, which a row offers unless its status is Paid
openPaymentDialog(row) ==
    /\ PageUsable
    /\ TableShown
    /\ row.status # "Paid"
    /\ currentRow' = row
    /\ showPaymentDialog' = TRUE
    \* v-if="currentRow": the dialog component is created when currentRow is
    \* first set and lives on afterwards
    /\ IF currentRow = NoRow
       THEN /\ isProcessing' = FALSE
            /\ paymentType' = "Full"
            /\ paymentAmount' = Null
            /\ billingDetails' = SetupBilling
            /\ paymentError' = RenderedError(TRUE, "Full", SetupBilling, Null, row,
                                             NoError)
       ELSE /\ UNCHANGED <<isProcessing, paymentType, paymentAmount, billingDetails>>
            /\ paymentError' = RenderedError(TRUE, paymentType, billingDetails,
                                             paymentAmount, row, paymentError)
    /\ toasts' = <<>>
    /\ UNCHANGED pendingPayments
    /\ UNCHANGED <<url, mounted, reloadTimer, invoicesResource, tableData, redirected, href>>
    /\ emitted' = <<>>
    /\ UNCHANGED notFees

\* onPaymentSuccess, the page's handler of the dialog's 'success' event
\* (@success="onPaymentSuccess()"): the list resource and the toast it leaves
onPaymentSuccess(res) ==
    [invoicesResource |-> Reload(res),
     toasts |-> <<[title |-> "Payment successful!",
                   description |-> "Your payment has been processed"]>>]

\* ====================================================================
\* Reports.vue
\* ====================================================================

\* ---- strings as the code compares them
\* Array.prototype.sort() without a comparator orders strings by code unit:
\* the strings of the model in that order (upper case before lower case)
CodeUnitOrder == <<"", "2023-2024", "2024-2025", "First Term", "JSS 1",
                   "Primary 1", "end of year">>
\* String.prototype.localeCompare orders them by collation: letters
\* alphabetically whatever their case
LocaleOrder == <<"", "2023-2024", "2024-2025", "end of year", "First Term",
                 "JSS 1", "Primary 1">>

RankIn(order, s) == CHOOSE i \in 1..Len(order) : order[i] = s

\* a < b for the default sort
CodeUnitLess(a, b) == RankIn(CodeUnitOrder, a) < RankIn(CodeUnitOrder, b)

\* a.localeCompare(b): negative, zero or positive
localeCompare(a, b) == RankIn(LocaleOrder, a) - RankIn(LocaleOrder, b)

\* ---- the report records of the server
Years == {"2023-2024", "2024-2025"}
Terms == {"First Term", "end of year"}
Programs == {"", "JSS 1"}
ReportFields == [academic_year : Years, assessment_group : Terms, program : Programs]
ReportNames == <<"STR-1", "STR-2", "STR-3", "STR-4">>

NamedReport(i, f) ==
    [name |-> ReportNames[i], academic_year |-> f.academic_year,
     assessment_group |-> f.assessment_group, program |-> f.program]

\* every list of at most MaxReports reports, the i-th named ReportNames[i]
ReportLists ==
    UNION {{[i \in 1..n |-> NamedReport(i, fs[i])] : fs \in [1..n -> ReportFields]}
           : n \in 0..MaxReports}

\* the lists the server answers with while the page is being used
SampleLists ==
    {<<>>,
     <<[name |-> "STR-1", academic_year |-> "2023-2024",
        assessment_group |-> "First Term", program |-> ""],
       [name |-> "STR-2", academic_year |-> "2024-2025",
        assessment_group |-> "end of year", program |-> "JSS 1"]>>}

\* what fetch and the server hand to apiCall
ApiResponse(net_ok, status, is_json, exc_type, exception, has_message, message) ==
    [net_ok |-> net_ok, status |-> status, is_json |-> is_json, exc_type |-> exc_type,
     exception |-> exception, has_message |-> has_message, message |-> message]

ReportResponses ==
    {ApiResponse(FALSE, 0, FALSE, "", "", FALSE, <<>>),
     ApiResponse(TRUE, 500, TRUE, "", "", FALSE, <<>>),
     ApiResponse(TRUE, 200, FALSE, "", "", FALSE, <<>>),
     ApiResponse(TRUE, 200, TRUE, "PermissionError", "", FALSE, <<>>),
     ApiResponse(TRUE, 200, TRUE, "", "Traceback", FALSE, <<>>),
     ApiResponse(TRUE, 200, TRUE, "", "", FALSE, <<>>)}
    \cup {ApiResponse(TRUE, 200, TRUE, "", "", TRUE, list) : list \in SampleLists}

\* apiCall: whether it throws, the message of the error, and the result
apiCall(response) ==
    IF ~response.net_ok
    THEN [threw |-> TRUE, error |-> "Failed to fetch", result |-> response]
    ELSE IF ~(response.status \in 200..299)
    THEN [threw |-> TRUE, error |-> "HTTP (status): (body)", result |-> response]
    ELSE IF ~response.is_json
    THEN [threw |-> TRUE, error |-> "Invalid JSON response: (body)", result |-> response]
    ELSE IF TruthyStr(response.exc_type) \/ TruthyStr(response.exception)
    THEN [threw |-> TRUE,
          error |-> OrStr(response.exception, OrStr(response.exc_type, "Server error")),
          result |-> response]
    ELSE [threw |-> FALSE, error |-> "", result |-> response]

\* ---- the computed lists
\* the values with their repetitions, as without new Set(...)
Distinct_KeepsAll(values) == values

RECURSIVE Distinct(_)
\* [...new Set(values)]: the values without repetition, first occurrences kept
Distinct(values) ==
    IF values = <<>> THEN <<>>
    ELSE LET rest == Distinct(SubSeq(values, 1, Len(values) - 1))
             last == values[Len(values)]
         IN  IF \E i \in 1..Len(rest) : rest[i] = last THEN rest ELSE Append(rest, last)

RECURSIVE InsertAscending(_, _)
InsertAscending(v, sorted) ==
    IF sorted = <<>> THEN <<v>>
    ELSE IF CodeUnitLess(v, Head(sorted))
         THEN <<v>> \o sorted
         ELSE <<Head(sorted)>> \o InsertAscending(v, Tail(sorted))

RECURSIVE SortAscending(_)
\* values.sort()
SortAscending(values) ==
    IF values = <<>> THEN <<>>
    ELSE InsertAscending(values[Len(values)],
                         SortAscending(SubSeq(values, 1, Len(values) - 1)))

\* values.filter(Boolean)
FilterBoolean(values) == SelectSeq(values, TruthyStr)

\* the option list of a dropdown: the 'All' entry, then one entry per value;
\* the onClick of an entry stores its value in the filter
FilterOptions(allLabel, values) ==
    <<[label |-> allLabel, value |-> ""]>>
    \o [i \in 1..Len(values) |-> [label |-> values[i], value |-> values[i]]]

academicYearFilterOptions(reports) ==
    FilterOptions("All Years",
        SortAscending(Distinct([i \in 1..Len(reports) |-> reports[i].academic_year])))

termFilterOptions(reports) ==
    FilterOptions("All Terms",
        SortAscending(Distinct([i \in 1..Len(reports) |-> reports[i].assessment_group])))

programFilterOptions(reports) ==
    FilterOptions("All Programs",
        SortAscending(Distinct(FilterBoolean(
            [i \in 1..Len(reports) |-> reports[i].program]))))

\* the comparator of filteredReports
CompareReports(a, b) ==
    IF a.academic_year # b.academic_year
    THEN localeCompare(b.academic_year, a.academic_year)
    ELSE localeCompare(a.assessment_group, b.assessment_group)

RECURSIVE InsertReport(_, _)
InsertReport(r, sorted) ==
    IF sorted = <<>> THEN <<r>>
    ELSE IF CompareReports(Head(sorted), r) <= 0
         THEN <<Head(sorted)>> \o InsertReport(r, Tail(sorted))
         ELSE <<r>> \o sorted

RECURSIVE SortReports(_)
\* filtered.sort(comparator), a stable sort
SortReports(reports) ==
    IF reports = <<>> THEN <<>>
    ELSE InsertReport(reports[Len(reports)],
                      SortReports(SubSeq(reports, 1, Len(reports) - 1)))

\* the three filter steps of filteredReports
ApplyFilters(reports, fy, ft, fp) ==
    LET byYear(r) == ~TruthyStr(fy) \/ r.academic_year = fy
        byTerm(r) == ~TruthyStr(ft) \/ r.assessment_group = ft
        byProgram(r) == ~TruthyStr(fp) \/ r.program = fp
    IN  SelectSeq(SelectSeq(SelectSeq(reports, byYear), byTerm), byProgram)

\* filteredReports evaluated without the copy [...allReports.value]: with no
\* filter set, sort() then orders the stored array itself
filteredReports_NoCopy(reports, fy, ft, fp) ==
    [value |-> SortReports(ApplyFilters(reports, fy, ft, fp)),
     source |-> IF TruthyStr(fy) \/ TruthyStr(ft) \/ TruthyStr(fp)
                THEN reports ELSE SortReports(reports)]

\* filteredReports without the sort
filteredReports_Unsorted(reports, fy, ft, fp) ==
    [value |-> ApplyFilters(reports, fy, ft, fp), source |-> reports]

\* filteredReports: the list it returns (value) and the array allReports
\* holds once it has run (source); it sorts a copy
filteredReports(reports, fy, ft, fp) ==
    [value |-> SortReports(ApplyFilters(reports, fy, ft, fp)), source |-> reports]

\* the stored array after a render: the grid evaluates filteredReports
\* unless the loading state is shown
Rendered(reports, fy, ft, fp, loading) ==
    IF loading THEN reports ELSE filteredReports(reports, fy, ft, fp).source

\* ---- alerts
NoAlert == [text |-> "", detail |-> ""]

\* showAlert needs a free timer slot in the model
CanShowAlert == alertTimers < MaxTimers

\* showAlert(message, type)
showAlert(message, type) ==
    /\ alertMessage' = message
    /\ alertType' = type
    /\ alertTimers' = alertTimers + 1

\* the callback of a showAlert timer
AlertTimerFires ==
    /\ ~renderPending
    /\ alertTimers > 0
    /\ alertTimers' = alertTimers - 1
    /\ alertMessage' = NoAlert
    /\ printViews' = <<>>
    /\ UNCHANGED <<reportsMounted, isLoading, isRefreshing, alertType, allReports,
                   filterYear, filterTerm, filterProgram, printingReports,
                   loadsInFlight, loadTriggers, loadRequests, printsInFlight,
                   renderPending>>
    /\ UNCHANGED notReports

\* the x button of the alert
DismissAlert ==
    /\ reportsMounted /\ ~renderPending
    /\ alertMessage # NoAlert
    /\ alertMessage' = NoAlert
    /\ printViews' = <<>>
    /\ UNCHANGED <<reportsMounted, isLoading, isRefreshing, alertType, allReports,
                   filterYear, filterTerm, filterProgram, printingReports,
                   loadsInFlight, loadTriggers, loadRequests, alertTimers,
                   printsInFlight, renderPending>>
    /\ UNCHANGED notReports

\* the render that follows a change of the list, of a filter or of isLoading;
\* it runs before the next event is handled
Render ==
    /\ renderPending
    /\ renderPending' = FALSE
    /\ allReports' = Rendered(allReports, filterYear, filterTerm, filterProgram,
                              isLoading)
    /\ printViews' = <<>>
    /\ UNCHANGED <<reportsMounted, isLoading, isRefreshing, alertMessage, alertType,
                   filterYear, filterTerm, filterProgram, printingReports,
                   loadsInFlight, loadTriggers, loadRequests, alertTimers,
                   printsInFlight>>
    /\ UNCHANGED notReports

\* ---- loading
\* loadReports up to its await
loadReports ==
    /\ isLoading' = (Len(allReports) = 0)
    /\ isRefreshing' = TRUE
    /\ loadsInFlight' = loadsInFlight + 1
    /\ loadRequests' = loadRequests + 1
    /\ renderPending' = TRUE
    /\ printViews' = <<>>
    /\ UNCHANGED <<alertMessage, alertType, allReports, filterYear, filterTerm,
                   filterProgram, printingReports, alertTimers, printsInFlight>>
    /\ UNCHANGED notReports

\* onMounted
ReportsMounted ==
    /\ ~reportsMounted
    /\ reportsMounted' = TRUE
    /\ loadTriggers' = loadTriggers + 1
    /\ loadReports

\* the Refresh button
ClickRefresh ==
    /\ reportsMounted /\ ~renderPending
    /\ loadTriggers < MaxLoads
    /\ loadTriggers' = loadTriggers + 1
    /\ UNCHANGED reportsMounted
    /\ loadReports

\* the catch block of loadReports with the assignment of [] left out
loadReportsSettled_KeepsList(outcome, reports) ==
    IF outcome.threw
    THEN [reports |-> reports, failed |-> TRUE,
          alert |-> [text |-> "Error loading reports: ", detail |-> outcome.error]]
    ELSE [reports |-> IF outcome.result.has_message THEN outcome.result.message ELSE <<>>,
          failed |-> FALSE, alert |-> NoAlert]

\* try and catch of loadReports after the await: the list it stores and the
\* alert it shows
loadReportsSettled(outcome, reports) ==
    IF outcome.threw
    THEN [reports |-> <<>>, failed |-> TRUE,
          alert |-> [text |-> "Error loading reports: ", detail |-> outcome.error]]
    ELSE [reports |-> IF outcome.result.has_message THEN outcome.result.message ELSE <<>>,
          failed |-> FALSE, alert |-> NoAlert]

\* loadReports after its await, for one of the requests in flight
LoadResponds(response) ==
    LET settled == loadReportsSettled(apiCall(response), allReports)
    IN  /\ ~renderPending
        /\ loadsInFlight > 0
        /\ loadsInFlight' = loadsInFlight - 1
        /\ IF settled.failed
           THEN CanShowAlert /\ showAlert(settled.alert, "error")
           ELSE UNCHANGED <<alertMessage, alertType, alertTimers>>
        /\ isLoading' = FALSE
        /\ isRefreshing' = FALSE
        /\ allReports' = settled.reports
        /\ renderPending' = TRUE
        /\ printViews' = <<>>
        /\ UNCHANGED <<reportsMounted, filterYear, filterTerm, filterProgram,
                       printingReports, loadTriggers, loadRequests, printsInFlight>>
        /\ UNCHANGED notReports

\* ---- filters
\* an entry of a dropdown is clicked: its onClick runs
SetFilters(fy, ft, fp) ==
    /\ reportsMounted /\ ~renderPending
    /\ filterYear' = fy
    /\ filterTerm' = ft
    /\ filterProgram' = fp
    /\ renderPending' = TRUE
    /\ printViews' = <<>>
    /\ UNCHANGED <<reportsMounted, isLoading, isRefreshing, alertMessage, alertType,
                   allReports, printingReports, loadsInFlight, loadTriggers,
                   loadRequests, alertTimers, printsInFlight>>
    /\ UNCHANGED notReports

ChooseYear(i) ==
    /\ i \in 1..Len(academicYearFilterOptions(allReports))
    /\ SetFilters(academicYearFilterOptions(allReports)[i].value, filterTerm,
                  filterProgram)

ChooseTerm(i) ==
    /\ i \in 1..Len(termFilterOptions(allReports))
    /\ SetFilters(filterYear, termFilterOptions(allReports)[i].value, filterProgram)

ChooseProgram(i) ==
    /\ i \in 1..Len(programFilterOptions(allReports))
    /\ SetFilters(filterYear, filterTerm, programFilterOptions(allReports)[i].value)

\* Clear Filters
clearFilters == SetFilters("", "", "")

\* ---- printing
\* the characters of the program names and keywords
Chars(s) ==
    CASE s = "" -> <<>>
      [] s = "JSS 1" -> <<"J", "S", "S", " ", "1">>
      [] s = "Primary 1" -> <<"P", "r", "i", "m", "a", "r", "y", " ", "1">>
      [] s = "jss" -> <<"j", "s", "s">>
      [] s = "ss" -> <<"s", "s">>
      [] s = "secondary" -> <<"s", "e", "c", "o", "n", "d", "a", "r", "y">>
      [] s = "high school" -> <<"h", "i", "g", "h", " ", "s", "c", "h", "o", "o", "l">>
      [] s = "senior" -> <<"s", "e", "n", "i", "o", "r">>
      [] s = "junior secondary" ->
            <<"j", "u", "n", "i", "o", "r", " ", "s", "e", "c", "o", "n", "d", "a", "r", "y">>
      [] s = "SS 2" -> <<"S", "S", " ", "2">>
      [] s = "Senior Class" ->
            <<"S", "e", "n", "i", "o", "r", " ", "C", "l", "a", "s", "s">>
      [] s = "SENIOR" -> <<"S", "E", "N", "I", "O", "R">>
      [] s = "High School" -> <<"H", "i", "g", "h", " ", "S", "c", "h", "o", "o", "l">>
      [] s = "Highschool" -> <<"H", "i", "g", "h", "s", "c", "h", "o", "o", "l">>
      [] s = "Junior Secondary 1" ->
            <<"J", "u", "n", "i", "o", "r", " ", "S", "e", "c", "o", "n", "d", "a", "r", "y", " ", "1">>
      [] s = "Nursery 2" -> <<"N", "u", "r", "s", "e", "r", "y", " ", "2">>
      [] s = "Basic 5" -> <<"B", "a", "s", "i", "c", " ", "5">>
      [] s = "Class 3" -> <<"C", "l", "a", "s", "s", " ", "3">>
      [] s = "Grade 7" -> <<"G", "r", "a", "d", "e", " ", "7">>
      [] s = "Seniors Club" ->
            <<"S", "e", "n", "i", "o", "r", "s", " ", "C", "l", "u", "b">>
      [] s = "Kindergarten" ->
            <<"K", "i", "n", "d", "e", "r", "g", "a", "r", "t", "e", "n">>

\* the lower-case letter of a letter, any other character itself
LowerChar(c) ==
    CASE c = "A" -> "a" [] c = "B" -> "b" [] c = "C" -> "c" [] c = "D" -> "d"
      [] c = "E" -> "e" [] c = "F" -> "f" [] c = "G" -> "g" [] c = "H" -> "h"
      [] c = "I" -> "i" [] c = "J" -> "j" [] c = "K" -> "k" [] c = "L" -> "l"
      [] c = "M" -> "m" [] c = "N" -> "n" [] c = "O" -> "o" [] c = "P" -> "p"
      [] c = "Q" -> "q" [] c = "R" -> "r" [] c = "S" -> "s" [] c = "T" -> "t"
      [] c = "U" -> "u" [] c = "V" -> "v" [] c = "W" -> "w" [] c = "X" -> "x"
      [] c = "Y" -> "y" [] c = "Z" -> "z"
      [] OTHER -> c

\* program.toLowerCase()
toLowerCase(cs) == [i \in 1..Len(cs) |-> LowerChar(cs[i])]

\* haystack.includes(needle)
includes(haystack, needle) ==
    \E i \in 1..(Len(haystack) - Len(needle) + 1) :
        SubSeq(haystack, i, i + Len(needle) - 1) = needle

secondaryKeywords == <<"jss", "ss", "secondary", "high school", "senior",
                       "junior secondary">>

\* isSecondaryProgram without toLowerCase
isSecondaryProgram_CaseSensitive(program) ==
    IF program = <<>> THEN FALSE
    ELSE \E k \in 1..Len(secondaryKeywords) :
            includes(program, Chars(secondaryKeywords[k]))

\* isSecondaryProgram(program); the program is given by its characters, <<>>
\* for the empty string and for a missing program alike
isSecondaryProgram(program) ==
    IF program = <<>> THEN FALSE
    ELSE \E k \in 1..Len(secondaryKeywords) :
            includes(toLowerCase(program), Chars(secondaryKeywords[k]))

\* ---- isSecondaryProgram applied to a program name
\* the names of more than MaxNameLen characters it is applied to
LongNames == {"JSS 1", "Primary 1", "junior secondary", "SS 2", "Senior Class", "SENIOR", "High School", "Highschool",
              "Junior Secondary 1", "Nursery 2", "Basic 5", "Class 3", "Grade 7", "Seniors Club", "Kindergarten"}

\* the characters the short names are made of
NameAlphabet == {"s", "S", "j", "J", " "}

\* every name of at most MaxNameLen characters of NameAlphabet, and the long ones
ProgramNames ==
    UNION {[1..n -> NameAlphabet] : n \in 0..MaxNameLen}
    \cup {Chars(name) : name \in LongNames}

\* const isSecondary = isSecondaryProgram(program)
Classify ==
    /\ isSecondary = Null
    /\ isSecondary' = Some(isSecondaryProgram(programName))
    /\ UNCHANGED programName
    /\ UNCHANGED notClassify

\* the next program is looked at
NextProgram(name) ==
    /\ isSecondary # Null
    /\ programName' = name
    /\ isSecondary' = Null
    /\ UNCHANGED notClassify

\* the answers of get_school_print_format
FormatResponses ==
    {ApiResponse(FALSE, 0, FALSE, "", "", FALSE,
                 [primary_print_format |-> "", secondary_print_format |-> ""]),
     ApiResponse(TRUE, 200, TRUE, "", "", FALSE,
                 [primary_print_format |-> "", secondary_print_format |-> ""]),
     ApiResponse(TRUE, 200, TRUE, "", "", TRUE,
                 [primary_print_format |-> "", secondary_print_format |-> ""]),
     ApiResponse(TRUE, 500, TRUE, "", "", FALSE,
                 [primary_print_format |-> "", secondary_print_format |-> ""]),
     ApiResponse(TRUE, 200, TRUE, "", "", TRUE,
                 [primary_print_format |-> "Primary Result",
                  secondary_print_format |-> ""]),
     ApiResponse(TRUE, 200, TRUE, "", "", TRUE,
                 [primary_print_format |-> "Primary Result",
                  secondary_print_format |-> "Secondary Result"])}

\* getPrintFormatForProgram that always hands out the primary format
getPrintFormatForProgram_PrimaryOnly(program, response) ==
    IF apiCall(response).threw \/ ~apiCall(response).result.has_message
    THEN "Standard"
    ELSE OrStr(apiCall(response).result.message.primary_print_format, "Standard")

\* getPrintFormatForProgram once the answer is there
getPrintFormatForProgram(program, response) ==
    LET outcome == apiCall(response)
        primaryFormat == IF outcome.result.has_message
                         THEN OrStr(outcome.result.message.primary_print_format, "Standard")
                         ELSE "Standard"
        secondaryFormat == IF outcome.result.has_message
                           THEN OrStr(outcome.result.message.secondary_print_format,
                                      "Standard")
                           ELSE "Standard"
    IN  IF outcome.threw THEN "Standard"
        ELSE IF isSecondaryProgram(Chars(program)) THEN secondaryFormat
             ELSE primaryFormat

\* the grid of report cards is rendered
GridShown ==
    /\ reportsMounted /\ ~renderPending
    /\ ~isLoading
    /\ Len(filteredReports(allReports, filterYear, filterTerm, filterProgram).value) > 0

\* the Print button of a card: printReport up to its await
printReport(report) ==
    /\ GridShown
    /\ Len(printsInFlight) < MaxPrints
    /\ printingReports' = printingReports \cup {report.name}
    /\ printsInFlight' = Append(printsInFlight, report)
    /\ printViews' = <<>>
    /\ UNCHANGED <<reportsMounted, isLoading, isRefreshing, alertMessage, alertType,
                   allReports, filterYear, filterTerm, filterProgram, loadsInFlight,
                   loadTriggers, loadRequests, alertTimers, renderPending>>
    /\ UNCHANGED notReports

\* printReport after its await, for the oldest print in flight
PrintResponds(response) ==
    /\ ~renderPending
    /\ printsInFlight # <<>>
    /\ CanShowAlert
    /\ LET report == Head(printsInFlight)
       IN  /\ printViews' = <<[name |-> report.name,
                               format |-> getPrintFormatForProgram(report.program,
                                                                   response)]>>
           /\ showAlert([text |-> "Opening print preview...", detail |-> ""], "success")
           /\ printingReports' = printingReports \ {report.name}
    /\ printsInFlight' = Tail(printsInFlight)
    /\ UNCHANGED <<reportsMounted, isLoading, isRefreshing, allReports, filterYear,
                   filterTerm, filterProgram, loadsInFlight, loadTriggers,
                   loadRequests, renderPending>>
    /\ UNCHANGED notReports

\* ====================================================================
\* School Term Result form: the client script that fills the skill tables

\* the values the user puts into the four fields; "" is the cleared field
FieldInputs == [student |-> {"", "STU-1"},
                academic_term |-> {"", "First Term"},
                academic_year |-> {"", "2024-2025"},
                assessment_group |-> {"", "First Term Exam"}]

\* the fields whose change handler is populate_skills
SkillFields == {"student", "academic_term", "academic_year", "assessment_group"}

\* frm.doc as the form is opened: a new document or a saved one
Docs == [student : FieldInputs.student,
         academic_term : FieldInputs.academic_term,
         academic_year : FieldInputs.academic_year,
         assessment_group : FieldInputs.assessment_group]

\* the rows the two tables hold when the form is opened: none in a new
\* document, those saved with it otherwise
OpenedTables ==
    {[psychomotor_skills |-> <<>>, affective_skills |-> <<>>],
     [psychomotor_skills |-> <<[skill |-> "Drawing"]>>,
      affective_skills |-> <<[skill |-> "Honesty"], [skill |-> "Neatness"]>>]}

\* r.message of frappe.client.get_list with limit_page_length 1
EnrolledPrograms == {"Primary 1", "JSS 1", "Nursery 1"}
EnrollmentMessages ==
    {Null, Some(<<>>)} \cup {Some(<<[program |-> p]>>) : p \in EnrolledPrograms}

\* r.message of frappe.client.get for School Settings: the singleton record,
\* Null when it is not returned
ProgramTables ==
    {Null, Some(<<>>), Some(<<[program |-> "Primary 1"]>>),
     Some(<<[program |-> "JSS 1"], [program |-> "Primary 1"]>>)}
SchoolSettings ==
    [primary_programs : ProgramTables,
     secondary_programs : ProgramTables \ {Some(<<>>)},
     primary_psychomotor_skills :
         {Null, Some(<<>>),
          Some(<<[skill_name |-> "Handwriting"], [skill_name |-> "Sports"]>>)},
     primary_affective_skills :
         {Null, Some(<<[skill_name |-> "Neatness"]>>)},
     secondary_psychomotor_skills :
         {Some(<<[skill_name |-> "Sports"], [skill_name |-> "Handwriting"]>>)},
     secondary_affective_skills :
         {Some(<<>>), Some(<<[skill_name |-> "Punctuality"],
                             [skill_name |-> "Honesty"]>>)}]
SettingsMessages == {Null} \cup {Some(s) : s \in SchoolSettings}

\* a frappe.msgprint message: its text and what the template puts into it
Msgprint(text, school_level, program, skill_count) ==
    [text |-> text, school_level |-> school_level, program |-> program,
     skill_count |-> skill_count]

\* !frm.doc.assessment_group || !frm.doc.student || !frm.doc.academic_year
RequiredFieldsPresent(d) ==
    /\ TruthyStr(d.assessment_group)
    /\ TruthyStr(d.student)
    /\ TruthyStr(d.academic_year)

\* populate_skills that also waits for academic_term
populate_skills_NeedsTerm(d, trigger) ==
    IF ~(RequiredFieldsPresent(d) /\ TruthyStr(d.academic_term))
    THEN UNCHANGED <<enrollmentCalls, enrollmentSent>>
    ELSE /\ enrollmentCalls' = enrollmentCalls \cup
                {[trigger |-> trigger, student |-> d.student,
                  academic_year |-> d.academic_year]}
         /\ enrollmentSent' = [enrollmentSent EXCEPT ![trigger] = @ + 1]

\* populate_skills(frm), called for the field change number trigger
populate_skills(d, trigger) ==
    IF ~RequiredFieldsPresent(d)
    THEN UNCHANGED <<enrollmentCalls, enrollmentSent>>
    ELSE /\ enrollmentCalls' = enrollmentCalls \cup
                {[trigger |-> trigger, student |-> d.student,
                  academic_year |-> d.academic_year]}
         /\ enrollmentSent' = [enrollmentSent EXCEPT ![trigger] = @ + 1]

\* the user changes a field and both requests go out at once
FieldChanged_BothAtOnce(field, value) ==
    /\ skillTriggers < MaxTriggers
    /\ value # doc[field]
    /\ doc' = [doc EXCEPT ![field] = value]
    /\ skillTriggers' = skillTriggers + 1
    /\ populate_skills([doc EXCEPT ![field] = value], skillTriggers + 1)
    /\ msgprints' = <<>>
    /\ settingsCalls' = settingsCalls \cup
           {[trigger |-> skillTriggers + 1, program |-> "Primary 1"]}
    /\ settingsSent' = [settingsSent EXCEPT ![skillTriggers + 1] = @ + 1]
    /\ UNCHANGED <<psychomotor_skills, affective_skills, schoolSettings>>
    /\ UNCHANGED notSkills

\* the user changes one of the four fields; its handler runs
FieldChanged(field, value) ==
    /\ skillTriggers < MaxTriggers
    /\ value # doc[field]
    /\ doc' = [doc EXCEPT ![field] = value]
    /\ skillTriggers' = skillTriggers + 1
    /\ populate_skills([doc EXCEPT ![field] = value], skillTriggers + 1)
    /\ msgprints' = <<>>
    /\ UNCHANGED <<psychomotor_skills, affective_skills, settingsCalls,
                   schoolSettings, settingsSent>>
    /\ UNCHANGED notSkills

\* callback of the Program Enrollment request
EnrollmentResponds(call, message) ==
    /\ call \in enrollmentCalls
    /\ enrollmentCalls' = enrollmentCalls \ {call}
    /\ IF message # Null /\ Len(message[1]) > 0
       THEN /\ settingsCalls' = settingsCalls \cup
                   {[trigger |-> call.trigger,
                     program |-> message[1][1].program]}
            /\ settingsSent' = [settingsSent EXCEPT ![call.trigger] = @ + 1]
            /\ msgprints' = <<>>
       ELSE /\ msgprints' = <<Msgprint("No Program Enrollment found for this student",
                                       "", "", 0)>>
            /\ UNCHANGED <<settingsCalls, settingsSent>>
    /\ UNCHANGED <<doc, psychomotor_skills, affective_skills, schoolSettings,
                   skillTriggers, enrollmentSent>>
    /\ UNCHANGED notSkills

\* (settings.primary_programs || []).map(p => p.program)
ProgramsListed(table) ==
    [i \in 1..Len(OrEmpty(table)) |-> OrEmpty(table)[i].program]

\* Array.prototype.includes
ListIncludes(list, item) == \E i \in 1..Len(list) : list[i] = item

\* the school level with the secondary list looked at first
school_level_SecondaryFirst(settings, program) ==
    IF ListIncludes(ProgramsListed(settings.secondary_programs), program)
    THEN "Secondary"
    ELSE IF ListIncludes(ProgramsListed(settings.primary_programs), program)
         THEN "Primary"
         ELSE ""

\* the school level of a program, "" for null
school_level(settings, program) ==
    IF ListIncludes(ProgramsListed(settings.primary_programs), program)
    THEN "Primary"
    ELSE IF ListIncludes(ProgramsListed(settings.secondary_programs), program)
         THEN "Secondary"
         ELSE ""

psychomotor_field(level) ==
    IF level = "Primary" THEN "primary_psychomotor_skills"
    ELSE "secondary_psychomotor_skills"

affective_field(level) ==
    IF level = "Primary" THEN "primary_affective_skills"
    ELSE "secondary_affective_skills"

\* clear_table, then add_child with row.skill = skill.skill_name for each skill
PopulatedTable(skills) ==
    IF skills # Null /\ Len(skills[1]) > 0
    THEN [i \in 1..Len(skills[1]) |-> [skill |-> skills[1][i].skill_name]]
    ELSE <<>>

\* (settings[psychomotor_field] || []).length + (settings[affective_field] || []).length
skill_count(settings, level) ==
    Len(OrEmpty(settings[psychomotor_field(level)]))
    + Len(OrEmpty(settings[affective_field(level)]))

\* the School Settings callback with the tables cleared before the level is known
SettingsCallback_ClearsFirst(call, message) ==
    /\ call \in settingsCalls
    /\ settingsCalls' = settingsCalls \ {call}
    /\ IF message # Null /\ school_level(message[1], call.program) # ""
       THEN /\ psychomotor_skills' = PopulatedTable(
                   message[1][psychomotor_field(
                       school_level(message[1], call.program))])
            /\ affective_skills' = PopulatedTable(
                   message[1][affective_field(
                       school_level(message[1], call.program))])
            /\ msgprints' = <<Msgprint("Skills populated",
                   school_level(message[1], call.program), call.program,
                   skill_count(message[1],
                               school_level(message[1], call.program)))>>
       ELSE /\ msgprints' = <<Msgprint("Could not fetch School Settings", "", "", 0)>>
            /\ psychomotor_skills' = <<>>
            /\ affective_skills' = <<>>
    /\ UNCHANGED <<doc, enrollmentCalls, schoolSettings, skillTriggers,
                   enrollmentSent, settingsSent>>
    /\ UNCHANGED notSkills

\* callback of the School Settings request; r.message is what the server holds
SettingsCallback(call, message) ==
    /\ call \in settingsCalls
    /\ settingsCalls' = settingsCalls \ {call}
    /\ IF message # Null
       THEN IF school_level(message[1], call.program) # ""
            THEN /\ psychomotor_skills' = PopulatedTable(
                        message[1][psychomotor_field(
                            school_level(message[1], call.program))])
                 /\ affective_skills' = PopulatedTable(
                        message[1][affective_field(
                            school_level(message[1], call.program))])
                 /\ msgprints' = <<Msgprint("Skills populated",
                        school_level(message[1], call.program), call.program,
                        skill_count(message[1],
                                    school_level(message[1], call.program)))>>
            ELSE /\ msgprints' = <<Msgprint(
                        "Program not found in Primary or Secondary School Programs",
                        "", call.program, 0)>>
                 /\ UNCHANGED <<psychomotor_skills, affective_skills>>
       ELSE /\ msgprints' = <<Msgprint("Could not fetch School Settings", "", "", 0)>>
            /\ UNCHANGED <<psychomotor_skills, affective_skills>>
    /\ UNCHANGED <<doc, enrollmentCalls, schoolSettings, skillTriggers,
                   enrollmentSent, settingsSent>>
    /\ UNCHANGED notSkills

SettingsResponds(call) == SettingsCallback(call, schoolSettings)

\* ====================================================================
\* Bulk School Term Class Result Generator form: its client script.  The
\* form is saved by the framework: it runs the validate handlers and sends
\* the document unless a handler has set frappe.validated to false, has
\* thrown, or has returned a promise that is still pending; after the save
\* and whenever the form is shown it clears the custom buttons and runs the
\* refresh handlers.

\* the values of the three fields the script reads
BulkFieldInputs == [student_group |-> {"", "JSS 1 A", "Primary 1 B"},
                    assessment_group |-> {"", "First Term Exam"},
                    academic_year |-> {"", "2024-2025"}]
BulkFields == {"student_group", "assessment_group", "academic_year"}

\* refresh(frm): whether the View Generated Results button is added
refresh(is_new) == ~is_new

\* validate(frm): the message it shows, whether it leaves frappe.validated
\* true, and whether the save has to wait for it
validate(is_new, d) ==
    [msgprint |-> IF is_new THEN Some(d.student_group) ELSE Null,
     validated |-> TRUE,
     pending |-> FALSE]

\* the user edits a field; the script has no handler for it
EditBulkField(field, value) ==
    /\ value # bulkDoc[field]
    /\ bulkDoc' = [bulkDoc EXCEPT ![field] = value]
    /\ UNCHANGED <<bulkIsNew, bulkMsgprint, bulkMsgGroup, bulkViewButton,
                   route_options, bulkSaves>>
    /\ UNCHANGED notBulk

\* Save: validate runs, the document is saved, the form is refreshed
SaveBulk ==
    /\ bulkSaves < MaxSaves
    /\ IF validate(bulkIsNew, bulkDoc).msgprint # Null
       THEN /\ bulkMsgprint' = "open"
            /\ bulkMsgGroup' = validate(bulkIsNew, bulkDoc).msgprint[1]
       ELSE UNCHANGED <<bulkMsgprint, bulkMsgGroup>>
    /\ IF validate(bulkIsNew, bulkDoc).validated
          /\ ~validate(bulkIsNew, bulkDoc).pending
       THEN /\ bulkIsNew' = FALSE
            /\ bulkSaves' = bulkSaves + 1
            /\ bulkViewButton' = refresh(FALSE)
       ELSE UNCHANGED <<bulkIsNew, bulkSaves, bulkViewButton>>
    /\ UNCHANGED <<bulkDoc, route_options>>
    /\ UNCHANGED notBulk

\* the user closes the message of validate
CloseBulkMsgprint ==
    /\ bulkMsgprint = "open"
    /\ bulkMsgprint' = "closed"
    /\ UNCHANGED <<bulkDoc, bulkIsNew, bulkMsgGroup, bulkViewButton,
                   route_options, bulkSaves>>
    /\ UNCHANGED notBulk

\* the View Generated Results button: route_options, then the list is opened
ViewGeneratedResults ==
    /\ bulkViewButton
    /\ route_options' = Some([assessment_group |-> bulkDoc.assessment_group,
                              academic_year |-> bulkDoc.academic_year,
                              student_group |-> bulkDoc.student_group])
    /\ UNCHANGED <<bulkDoc, bulkIsNew, bulkMsgprint, bulkMsgGroup, bulkViewButton,
                   bulkSaves>>
    /\ UNCHANGED notBulk

\* ====================================================================
\* Assessment Plan form (assessment_plan.js)
\* ====================================================================
\* The script listens to student_group.  get_policy_details is a method of
\* the server: it answers with a policy or with nothing.

\* the student groups the user can choose, "" for the cleared field
PlanGroups == {"", "JSS 1 A", "Primary 1 B"}

\* criteria rows of a policy as the server returns them
PolicyRows ==
    [exam |-> [name |-> "row-1", assessment_criteria |-> "Exam", weightage |-> 70],
     test |-> [name |-> "row-2", assessment_criteria |-> "Test", weightage |-> 30]]

\* r.message: nothing, or a policy with its criteria in the server's order
PolicyMessages ==
    {Null}
    \cup {Some([max_assessment_score |-> score, criteria |-> criteria]) :
             score \in {40, 100},
             criteria \in {<<>>, <<PolicyRows.exam>>,
                           <<PolicyRows.exam, PolicyRows.test>>,
                           <<PolicyRows.test, PolicyRows.exam>>}}

\* the score and the rows of an Assessment Plan as its form is opened
OpenedPlans ==
    {[maximum_assessment_score |-> 0, assessment_criteria |-> <<>>],
     [maximum_assessment_score |-> 60,
      assessment_criteria |-> <<[assessment_criteria |-> "Project",
                                 weightage |-> 100, idx |-> 1]>>]}

\* frm.add_child('assessment_criteria') and the two assignments: the new
\* row goes to the end of the table and takes the next idx
add_child(table, row) ==
    Append(table, [assessment_criteria |-> row.assessment_criteria,
                   weightage |-> row.weightage,
                   idx |-> Len(table) + 1])

\* policy.criteria.forEach(...) on a table
RECURSIVE AddCriteria(_, _)
AddCriteria(table, criteria) ==
    IF criteria = <<>> THEN table
    ELSE AddCriteria(add_child(table, Head(criteria)), Tail(criteria))

\* the handler of student_group: the user has set the field to value
student_group(value) ==
    /\ planTriggers < MaxPlanTriggers
    /\ value # planDoc.student_group
    /\ planTriggers' = planTriggers + 1
    /\ planDoc' = [planDoc EXCEPT !.student_group = value]
    /\ policyCalls' = IF TruthyStr(value)
                      THEN policyCalls \cup {[id |-> planTriggers + 1,
                                              student_group |-> value]}
                      ELSE policyCalls
    /\ planCleared' = {}
    /\ UNCHANGED assessment_criteria
    /\ UNCHANGED notPlan

\* the callback without clear_table: the rows are added to those there
PolicyCallback_KeepsRows(message) ==
    IF message # Null
    THEN /\ planDoc' = [planDoc EXCEPT !.maximum_assessment_score =
                                           message[1].max_assessment_score]
         /\ planCleared' = {}
         /\ assessment_criteria' = AddCriteria(assessment_criteria,
                                               message[1].criteria)
    ELSE /\ planCleared' = {}
         /\ UNCHANGED <<planDoc, assessment_criteria>>

\* callback: function(r)
PolicyCallback(message) ==
    IF message # Null
    THEN /\ planDoc' = [planDoc EXCEPT !.maximum_assessment_score =
                                           message[1].max_assessment_score]
         /\ planCleared' = {"assessment_criteria"}
         /\ assessment_criteria' = AddCriteria(<<>>, message[1].criteria)
    ELSE /\ planCleared' = {}
         /\ UNCHANGED <<planDoc, assessment_criteria>>

\* the response to a policy request arrives
PolicyResponds(call, message) ==
    /\ call \in policyCalls
    /\ policyCalls' = policyCalls \ {call}
    /\ PolicyCallback(message)
    /\ UNCHANGED planTriggers
    /\ UNCHANGED notPlan

\* ====================================================================
\* IndividualAwards.vue

\* awards as get_individual_awards returns them
ServerAwards ==
    <<[name |-> "AWD-1", certificate_type |-> "Academic",
       academic_year |-> "2023-2024"],
      [name |-> "AWD-2", certificate_type |-> "Sports",
       academic_year |-> "2024-2025"]>>

\* what call() hands to loadAwards: the list (Null for an empty answer), or
\* an error with its message
AwardResponses ==
    {[threw |-> FALSE, res |-> Null, message |-> ""],
     [threw |-> FALSE, res |-> Some(SubSeq(ServerAwards, 1, 1)), message |-> ""],
     [threw |-> FALSE, res |-> Some(ServerAwards), message |-> ""],
     [threw |-> TRUE, res |-> Null, message |-> "Not permitted"],
     [threw |-> TRUE, res |-> Null, message |-> ""]}

\* (res || []).map(a => ({ name, category: a.certificate_type, year: a.academic_year, ... }))
MapAwards(res) ==
    [i \in 1..Len(OrEmpty(res)) |->
        [name |-> OrEmpty(res)[i].name,
         category |-> OrEmpty(res)[i].certificate_type,
         year |-> OrEmpty(res)[i].academic_year]]

\* loadAwards up to its await
loadAwards ==
    /\ awardsIsLoading' = TRUE
    /\ awardsIsRefreshing' = TRUE
    /\ errorMessage' = ""
    /\ awardLoads' = awardLoads + 1
    /\ awardRequests' = awardRequests + 1
    /\ UNCHANGED <<allAwards, awardsFilterYear, filterCategory>>
    /\ UNCHANGED notAwards

\* onMounted
AwardsMounted ==
    /\ ~awardsMounted
    /\ awardsMounted' = TRUE
    /\ awardTriggers' = awardTriggers + 1
    /\ loadAwards

\* the Refresh button
ClickAwardsRefresh ==
    /\ awardsMounted
    /\ awardTriggers < MaxAwardLoads
    /\ awardTriggers' = awardTriggers + 1
    /\ UNCHANGED awardsMounted
    /\ loadAwards

\* the catch block of loadAwards emptying the list as that of loadReports does
loadAwardsSettled_DropsAwards(response, awards) ==
    IF response.threw
    THEN [awards |-> <<>>,
          error |-> OrStr(response.message,
                          "Failed to load awards. Please try again.")]
    ELSE [awards |-> MapAwards(response.res), error |-> ""]

\* try and catch of loadAwards after the await: the list and the message
loadAwardsSettled(response, awards) ==
    IF response.threw
    THEN [awards |-> awards,
          error |-> OrStr(response.message,
                          "Failed to load awards. Please try again.")]
    ELSE [awards |-> MapAwards(response.res), error |-> ""]

\* loadAwards after its await, for one of the requests in flight
AwardsRespond(response) ==
    /\ awardLoads > 0
    /\ awardLoads' = awardLoads - 1
    /\ allAwards' = loadAwardsSettled(response, allAwards).awards
    /\ errorMessage' = IF response.threw
                       THEN loadAwardsSettled(response, allAwards).error
                       ELSE errorMessage
    /\ awardsIsLoading' = FALSE
    /\ awardsIsRefreshing' = FALSE
    /\ UNCHANGED <<awardsMounted, awardsFilterYear, filterCategory, awardTriggers,
                   awardRequests>>
    /\ UNCHANGED notAwards

\* [...new Set(allAwards.map(a => a.year))].sort(): the distinct years
AwardYears(awards) == SortAscending(Distinct([i \in 1..Len(awards) |-> awards[i].year]))

\* yearOptions: the values of the entries
yearOptions(awards) == <<"">> \o AwardYears(awards)

\* categoryOptions: the values of the entries
categoryOptions == <<"", "Academic", "Sports", "Leadership", "Behavioural">>

\* an entry of the year dropdown is clicked
ChooseAwardYear(i) ==
    /\ awardsMounted
    /\ i \in 1..Len(yearOptions(allAwards))
    /\ awardsFilterYear' = yearOptions(allAwards)[i]
    /\ UNCHANGED <<awardsMounted, awardsIsLoading, awardsIsRefreshing, allAwards,
                   filterCategory, errorMessage, awardLoads, awardTriggers,
                   awardRequests>>
    /\ UNCHANGED notAwards

\* an entry of the category dropdown is clicked
ChooseCategory(i) ==
    /\ awardsMounted
    /\ i \in 1..Len(categoryOptions)
    /\ filterCategory' = categoryOptions[i]
    /\ UNCHANGED <<awardsMounted, awardsIsLoading, awardsIsRefreshing, allAwards,
                   awardsFilterYear, errorMessage, awardLoads, awardTriggers,
                   awardRequests>>
    /\ UNCHANGED notAwards

\* Clear Filters of the awards page
clearAwardFilters ==
    /\ awardsMounted
    /\ awardsFilterYear' = ""
    /\ filterCategory' = ""
    /\ UNCHANGED <<awardsMounted, awardsIsLoading, awardsIsRefreshing, allAwards,
                   errorMessage, awardLoads, awardTriggers, awardRequests>>
    /\ UNCHANGED notAwards

\* filteredAwards
filteredAwards(awards, year, category) ==
    SelectSeq(awards, LAMBDA a : /\ (~TruthyStr(year) \/ a.year = year)
                                 /\ (~TruthyStr(category) \/ a.category = category))

\* ------------------------------------------------------------------------
\* the Fees page as it is constructed, for a given set of URLs
FeesConstructed(urls) ==
    /\ url \in urls
    /\ mounted = FALSE
    /\ reloadTimer = "none"
    \* auto: true sends the first request when the resource is created
    /\ invoicesResource = [loading |-> TRUE, error |-> FALSE, inFlight |-> 1]
    /\ tableData = [rows |-> <<>>]
    /\ currentRow = NoRow
    /\ showPaymentDialog = FALSE
    /\ redirected = FALSE
    /\ href = Null
    /\ toasts = <<>>
    /\ emitted = <<>>
    /\ isProcessing = FALSE
    /\ paymentType = "Full"
    /\ paymentAmount = Null
    /\ paymentError = NoError
    /\ billingDetails = SetupBilling
    /\ pendingPayments = <<>>

\* the Reports page as it is constructed
ReportsConstructed ==
    /\ reportsMounted = FALSE
    /\ isLoading = FALSE
    /\ isRefreshing = FALSE
    /\ alertMessage = NoAlert
    /\ alertType = "success"
    /\ allReports = <<>>
    /\ filterYear = ""
    /\ filterTerm = ""
    /\ filterProgram = ""
    /\ printingReports = {}
    /\ loadsInFlight = 0
    /\ loadTriggers = 0
    /\ loadRequests = 0
    /\ alertTimers = 0
    /\ printsInFlight = <<>>
    /\ printViews = <<>>
    /\ renderPending = FALSE

\* the School Term Result form as it is opened, for given documents, rows
\* and School Settings
SkillsFormOpened(docs, tables, settings) ==
    /\ doc \in docs
    /\ schoolSettings \in settings
    /\ \E opened \in tables :
          /\ psychomotor_skills = opened.psychomotor_skills
          /\ affective_skills = opened.affective_skills
    /\ enrollmentCalls = {}
    /\ settingsCalls = {}
    /\ skillTriggers = 0
    /\ enrollmentSent = [t \in 1..MaxTriggers |-> 0]
    /\ settingsSent = [t \in 1..MaxTriggers |-> 0]
    /\ msgprints = <<>>

\* a new School Term Result: no field set, no row
NewDoc == [student |-> "", academic_term |-> "", academic_year |-> "",
           assessment_group |-> ""]

\* a Bulk School Term Class Result Generator document as its form is
\* opened: a new one, or a saved one with the refresh handler run
BulkFormOpened(news) ==
    /\ bulkDoc \in [student_group : BulkFieldInputs.student_group,
                    assessment_group : BulkFieldInputs.assessment_group,
                    academic_year : BulkFieldInputs.academic_year]
    /\ bulkIsNew \in news
    /\ bulkMsgprint = "none"
    /\ bulkMsgGroup = ""
    /\ bulkViewButton = refresh(bulkIsNew)
    /\ route_options = Null
    /\ bulkSaves = 0

\* the Bulk form with a new, empty document
BulkFormIdle ==
    /\ bulkDoc = [student_group |-> "", assessment_group |-> "",
                  academic_year |-> ""]
    /\ bulkIsNew = TRUE
    /\ bulkMsgprint = "none"
    /\ bulkMsgGroup = ""
    /\ bulkViewButton = FALSE
    /\ route_options = Null
    /\ bulkSaves = 0

\* the awards page as it is constructed
AwardsConstructed ==
    /\ awardsMounted = FALSE
    /\ awardsIsLoading = FALSE
    /\ awardsIsRefreshing = FALSE
    /\ allAwards = <<>>
    /\ awardsFilterYear = ""
    /\ filterCategory = ""
    /\ errorMessage = ""
    /\ awardLoads = 0
    /\ awardTriggers = 0
    /\ awardRequests = 0

\* the School Term Result form with a new, empty document
SkillsFormIdle ==
    SkillsFormOpened({NewDoc},
                     {[psychomotor_skills |-> <<>>, affective_skills |-> <<>>]},
                     {Null})

\* isSecondaryProgram before it is called, for given program names
ClassifyBefore(names) ==
    /\ programName \in names
    /\ isSecondary = Null

\* the Assessment Plan form as it is opened, for given plans
PlanFormOpened(plans) ==
    /\ \E opened \in plans :
          /\ planDoc = [student_group |-> "",
                        maximum_assessment_score |-> opened.maximum_assessment_score]
          /\ assessment_criteria = opened.assessment_criteria
    /\ policyCalls = {}
    /\ planTriggers = 0
    /\ planCleared = {}

\* the Assessment Plan form with a new, empty document
PlanFormIdle ==
    PlanFormOpened({[maximum_assessment_score |-> 0, assessment_criteria |-> <<>>]})

\* the forms and the awards page with no one working with them
FormsIdle ==
    /\ SkillsFormIdle /\ BulkFormIdle /\ AwardsConstructed /\ ClassifyBefore({<<>>})
    /\ PlanFormIdle

\* the Reports page once a list has been loaded
ReportsLoaded(lists) ==
    /\ reportsMounted = TRUE
    /\ isLoading = FALSE
    /\ isRefreshing = FALSE
    /\ alertMessage = NoAlert
    /\ alertType = "success"
    /\ allReports \in lists
    /\ filterYear = ""
    /\ filterTerm = ""
    /\ filterProgram = ""
    /\ printingReports = {}
    /\ loadsInFlight = 0
    /\ loadTriggers = 1
    /\ loadRequests = 1
    /\ alertTimers = 0
    /\ printsInFlight = <<>>
    /\ printViews = <<>>
    /\ renderPending = FALSE

Init == FeesConstructed(Queries) /\ ReportsConstructed /\ FormsIdle

PageNext ==
    \/ onMounted
    \/ ReloadTimerFires
    \/ \E response \in InvoiceResponses : InvoicesLoaded(response)
    \/ InvoicesFailed
    \/ TryAgain
    \/ \E i \in 1..Len(tableData.rows) : openPaymentDialog(tableData.rows[i])

DialogNext ==
    \/ \E t \in {"Full", "Partial"} : SelectPaymentType(t)
    \/ \E a \in AmountInputs : EnterAmount(a)
    \/ \E e \in EmailInputs, p \in PhoneInputs : EditBilling(e, p)
    \/ \E outcome \in PaymentOutcomes : PaymentResponse(outcome)
    \/ CloseDialog
    \/ ClickCancel

\* the page as the user drives it
Next == PageNext \/ DialogNext \/ ClickProceed

Spec == Init /\ [][Next]_vars

\* the timer set by onMounted runs its callback
FairSpec == Spec /\ WF_vars(ReloadTimerFires)

\* proceedToPayment called as a function, whatever the button shows
NextCall == PageNext \/ DialogNext \/ CallProceed

SpecCall == Init /\ [][NextCall]_vars

\* ---- the Reports page
InitReports == FeesConstructed({CleanUrl}) /\ ReportsConstructed /\ FormsIdle

FilterNext ==
    \/ \E i \in 1..(MaxReports + 1) : ChooseYear(i)
    \/ \E i \in 1..(MaxReports + 1) : ChooseTerm(i)
    \/ \E i \in 1..(MaxReports + 1) : ChooseProgram(i)
    \/ clearFilters

NextReports ==
    \/ ReportsMounted
    \/ ClickRefresh
    \/ \E response \in ReportResponses : LoadResponds(response)
    \/ FilterNext
    \/ DismissAlert
    \/ AlertTimerFires
    \/ Render
    \/ \E i \in 1..Len(allReports) :
          /\ i <= Len(filteredReports(allReports, filterYear, filterTerm,
                                      filterProgram).value)
          /\ printReport(filteredReports(allReports, filterYear, filterTerm,
                                         filterProgram).value[i])
    \/ \E response \in FormatResponses : PrintResponds(response)

SpecReports == InitReports /\ [][NextReports]_vars

\* ---- the lists the Reports page derives from a loaded list
InitReportLists ==
    FeesConstructed({CleanUrl}) /\ ReportsLoaded(ReportLists) /\ FormsIdle

NextReportLists == FilterNext \/ Render

SpecReportLists == InitReportLists /\ [][NextReportLists]_vars

\* ---- the School Term Result form
PagesIdle == FeesConstructed({CleanUrl}) /\ ReportsConstructed

InitSkills ==
    /\ PagesIdle /\ BulkFormIdle /\ AwardsConstructed /\ ClassifyBefore({<<>>})
    /\ PlanFormIdle
    /\ SkillsFormOpened(Docs, OpenedTables, SettingsMessages)

NextSkills ==
    \/ \E field \in SkillFields : \E value \in FieldInputs[field] :
          FieldChanged(field, value)
    \/ \E call \in enrollmentCalls : \E message \in EnrollmentMessages :
          EnrollmentResponds(call, message)
    \/ \E call \in settingsCalls : SettingsResponds(call)

SpecSkills == InitSkills /\ [][NextSkills]_vars

\* ---- the Bulk School Term Class Result Generator form
InitBulk ==
    /\ PagesIdle /\ SkillsFormIdle /\ AwardsConstructed /\ ClassifyBefore({<<>>})
    /\ PlanFormIdle
    /\ BulkFormOpened(BOOLEAN)

NextBulk ==
    \/ \E field \in BulkFields : \E value \in BulkFieldInputs[field] :
          EditBulkField(field, value)
    \/ SaveBulk
    \/ CloseBulkMsgprint
    \/ ViewGeneratedResults

SpecBulk == InitBulk /\ [][NextBulk]_vars

\* ---- the awards page
InitAwards == PagesIdle /\ FormsIdle

NextAwards ==
    \/ AwardsMounted
    \/ ClickAwardsRefresh
    \/ \E response \in AwardResponses : AwardsRespond(response)
    \/ \E i \in 1..(Len(ServerAwards) + 1) : ChooseAwardYear(i)
    \/ \E i \in 1..Len(categoryOptions) : ChooseCategory(i)
    \/ clearAwardFilters

SpecAwards == InitAwards /\ [][NextAwards]_vars

\* ---- the Fees table, for responses with every status
InitInvoices == FeesConstructed({CleanUrl}) /\ ReportsConstructed /\ FormsIdle

NextInvoices ==
    \/ onMounted
    \/ \E response \in StatusResponses : InvoicesLoaded(response)
    \/ InvoicesFailed
    \/ TryAgain

SpecInvoices == InitInvoices /\ [][NextInvoices]_vars

\* ---- isSecondaryProgram applied to program names
InitClassify ==
    /\ PagesIdle /\ SkillsFormIdle /\ BulkFormIdle /\ AwardsConstructed
    /\ PlanFormIdle
    /\ ClassifyBefore(ProgramNames)

NextClassify ==
    \/ Classify
    \/ \E name \in ProgramNames : NextProgram(name)

SpecClassify == InitClassify /\ [][NextClassify]_vars

\* ---- the Assessment Plan form
InitPlan ==
    /\ PagesIdle /\ SkillsFormIdle /\ BulkFormIdle /\ AwardsConstructed
    /\ ClassifyBefore({<<>>})
    /\ PlanFormOpened(OpenedPlans)

NextPlan ==
    \/ \E value \in PlanGroups : student_group(value)
    \/ \E call \in policyCalls : \E message \in PolicyMessages :
          PolicyResponds(call, message)

SpecPlan == InitPlan /\ [][NextPlan]_vars

\* ====================================================================
\* Properties of the payment dialog and of the payment callback
\* ====================================================================

\* a step that sends an initiate_payment request, and the request it sends
SendsPayment == Len(pendingPayments') > Len(pendingPayments)
SentPayment == pendingPayments'[Len(pendingPayments')]

\* C1: every initiate_payment request carries a payment_amount that is at
\* most the outstanding balance (amount_outstanding_raw) of the row the
\* dialog shows when the request is sent, in Full and in Partial mode.
C1_AmountWithinOutstanding ==
    [][SendsPayment =>
          SentPayment.payment_amount <= currentRow.amount_outstanding_raw]_vars

\* a partial payment below the outstanding balance is on its way
C1_Witness ==
    /\ pendingPayments # <<>>
    /\ paymentType = "Partial"
    /\ pendingPayments[1].sales_invoice = currentRow.invoice
    /\ pendingPayments[1].payment_amount < currentRow.amount_outstanding_raw

\* the form is invalid in the claim's words
FormInvalid ==
    \/ billingDetails.email = ""
    \/ billingDetails.mobile_number = ""
    \/ /\ paymentType = "Partial"
       /\ \/ paymentAmount = Null
          \/ paymentAmount[1] <= 0
          \/ paymentAmount[1] > currentRow.amount_outstanding_raw

ValidationToast == [title |-> "Validation Error",
                    description |-> "Please fill in all required fields correctly"]

\* C2: when the form is invalid (email or phone number empty, or in Partial
\* mode the amount missing, not greater than zero or above the outstanding
\* balance), proceedToPayment sends no request, leaves isProcessing as it
\* was and shows the validation toast.
C2_InvalidFormSendsNothing ==
    [][(CallProceed /\ FormInvalid) =>
          /\ pendingPayments' = pendingPayments
          /\ isProcessing' = isProcessing
          /\ toasts' = <<ValidationToast>>]_vars

\* proceedToPayment has just refused a partial amount above the balance
C2_Witness ==
    /\ toasts = <<ValidationToast>>
    /\ paymentType = "Partial"
    /\ paymentAmount # Null
    /\ paymentAmount[1] > currentRow.amount_outstanding_raw
    /\ billingDetails.email # "" /\ billingDetails.mobile_number # ""
    /\ pendingPayments = <<>>

\* C3: in Full mode the payment_amount sent is the full outstanding balance
\* of the invoice, whatever was typed in Partial mode before; in Partial
\* mode it is the amount the user entered.
C3_AmountByMode ==
    [][SendsPayment =>
          /\ paymentType = "Full" =>
                SentPayment.payment_amount = currentRow.amount_outstanding_raw
          /\ paymentType = "Partial" =>
                SentPayment.payment_amount = paymentAmount[1]
          /\ SentPayment.sales_invoice = currentRow.invoice]_vars

\* a full payment is on its way although a smaller amount had been typed
C3_Witness ==
    /\ pendingPayments # <<>>
    /\ paymentType = "Full"
    /\ paymentAmount # Null
    /\ paymentAmount[1] > 0
    /\ paymentAmount[1] < currentRow.amount_outstanding_raw
    /\ pendingPayments[1].payment_amount = currentRow.amount_outstanding_raw

\* C4: every time the dialog is opened (openPaymentDialog) the payment type
\* is 'Full', the amount is empty, there is no validation error and the
\* contact fields hold the student's defaults.
C4_FreshIntentOnOpen ==
    [][(~showPaymentDialog /\ showPaymentDialog') =>
          /\ paymentType' = "Full"
          /\ paymentAmount' = Null
          /\ paymentError' = NoError
          /\ billingDetails' = [email |-> "student@school.ng",
                                mobile_number |-> "0800"]]_vars

\* C5: mounted with 'success' the page shows the success toast and starts
\* the timer; the timer's callback re-fetches the invoice list once and
\* replaces the URL by the clean path, and it runs; mounted without
\* 'success' no timer is started; a request for the list is sent only by
\* that callback or by Try Again.
C5_SuccessCallback ==
    /\ [][(~mounted /\ mounted') =>
             IF url.success
             THEN /\ \E i \in 1..Len(toasts') :
                        toasts'[i].title = "Payment Successful!"
                  /\ reloadTimer' = "scheduled"
             ELSE /\ \A i \in 1..Len(toasts') :
                        toasts'[i].title # "Payment Successful!"
                  /\ reloadTimer' = "none"]_vars
    /\ [][reloadTimer' # reloadTimer =>
             \/ ~mounted /\ reloadTimer = "none" /\ reloadTimer' = "scheduled"
             \/ /\ reloadTimer = "scheduled" /\ reloadTimer' = "done"
                /\ invoicesResource'.inFlight = invoicesResource.inFlight + 1
                /\ url' = CleanUrl]_vars
    /\ [][invoicesResource'.inFlight > invoicesResource.inFlight =>
             \/ reloadTimer = "scheduled" /\ reloadTimer' = "done"
             \/ invoicesResource.error /\ ~invoicesResource.loading]_vars
    /\ (reloadTimer = "scheduled") ~> (reloadTimer = "done" /\ url = CleanUrl)

\* the callback has re-fetched the list and cleaned the URL
C5_Witness ==
    /\ reloadTimer = "done"
    /\ url = CleanUrl
    /\ invoicesResource.inFlight = 2

\* the message the claim gives for an error code
ClaimedErrorMessage(code) ==
    IF code = "verification_failed"
    THEN "Payment verification failed. Please contact support."
    ELSE IF code = "payment_processing_failed"
    THEN "Error processing your payment. Please try again."
    ELSE IF code = "payment_failed"
    THEN "Payment was declined. Please try again."
    ELSE IF code = "verification_error"
    THEN "An error occurred during verification. Please try again."
    ELSE "An error occurred during payment."

\* C6: mounted with 'error' the page shows exactly one 'Payment Error'
\* toast, with the message of the error code or the generic message, cleans
\* the URL and sends no request for the invoice list.
C6_ErrorCallback ==
    [][(~mounted /\ mounted' /\ url.error # NoParam) =>
          /\ Cardinality({i \in 1..Len(toasts') :
                            toasts'[i].title = "Payment Error"}) = 1
          /\ \A i \in 1..Len(toasts') :
                toasts'[i].title = "Payment Error" =>
                   toasts'[i].description = ClaimedErrorMessage(url.error)
          /\ url' = CleanUrl
          /\ invoicesResource' = invoicesResource
          /\ (~url.success => reloadTimer' = "none")]_vars

\* the page has just been mounted with an error code that is not mapped
C6_Witness ==
    /\ mounted
    /\ reloadTimer = "none"
    /\ toasts = <<[title |-> "Payment Error",
                   description |-> "An error occurred during payment."]>>
    /\ url = CleanUrl
    /\ currentRow = NoRow
    /\ invoicesResource.inFlight = 1

\* ====================================================================
\* Properties of the Reports page
\* ====================================================================

\* a response with which the fetch of the reports fails, in the claim's
\* words: network error, non-OK status, non-JSON body, exc_type or exception
FailingResponse(response) ==
    \/ ~response.net_ok
    \/ response.status < 200 \/ response.status > 299
    \/ ~response.is_json
    \/ response.exc_type # "" \/ response.exception # ""

\* C7: when the reports fetch fails, loadReports shows an error alert,
\* leaves the stored list empty, resets both loading flags and sends no
\* further request; the requests sent never outnumber the mount and Refresh
\* events.
C7_FailedLoadIsNotRetried ==
    /\ [][\A response \in ReportResponses :
             (FailingResponse(response) /\ LoadResponds(response)) =>
                /\ alertType' = "error"
                /\ alertMessage'.text = "Error loading reports: "
                /\ alertMessage'.detail # ""
                /\ allReports' = <<>>
                /\ isLoading' = FALSE /\ isRefreshing' = FALSE
                /\ loadRequests' = loadRequests
                /\ loadsInFlight' = loadsInFlight - 1]_vars
    /\ [](loadRequests <= loadTriggers)

\* a Refresh has failed: the error alert is up and the list is empty
C7_Witness ==
    /\ alertType = "error"
    /\ alertMessage.text = "Error loading reports: "
    /\ allReports = <<>>
    /\ loadTriggers = 2 /\ loadRequests = 2
    /\ loadsInFlight = 0
    /\ ~isLoading /\ ~isRefreshing

\* C8: the stored report array (records and order) changes only in a step
\* in which a load completes; rendering the computed lists, choosing and
\* clearing filters, alerts and printing leave it as it is.
C8_ReportsChangeOnlyOnLoad ==
    [][allReports' # allReports =>
          /\ loadsInFlight' = loadsInFlight - 1
          /\ ~renderPending /\ renderPending']_vars

\* a list whose sorted view differs from its stored order has been rendered
\* with a filter chosen, and a print alert is up
C8_Witness ==
    /\ Len(allReports) = 2
    /\ ~renderPending /\ ~isLoading
    /\ filteredReports(allReports, "", "", "").value # allReports
    /\ filterYear # ""
    /\ alertMessage.text = "Opening print preview..."

\* an option list as the claim describes it: the 'All' entry with the empty
\* value, then one entry per value of the set, ascending
OptionsOf(options, values) ==
    /\ Len(options) = 1 + Cardinality(values)
    /\ options[1].value = ""
    /\ {options[i].value : i \in 2..Len(options)} = values
    /\ \A i, j \in 2..Len(options) :
          i < j => CodeUnitLess(options[i].value, options[j].value)

\* the values of the three fields among the loaded reports
LoadedYears == {allReports[i].academic_year : i \in 1..Len(allReports)}
LoadedTerms == {allReports[i].assessment_group : i \in 1..Len(allReports)}
LoadedPrograms == {allReports[i].program : i \in 1..Len(allReports)} \ {""}

OptionListsAsClaimed ==
    /\ OptionsOf(academicYearFilterOptions(allReports), LoadedYears)
    /\ OptionsOf(termFilterOptions(allReports), LoadedTerms)
    /\ OptionsOf(programFilterOptions(allReports), LoadedPrograms)
    /\ academicYearFilterOptions(allReports)[1].label = "All Years"
    /\ termFilterOptions(allReports)[1].label = "All Terms"
    /\ programFilterOptions(allReports)[1].label = "All Programs"

FilterTakesOptionValue ==
    /\ filterYear' # filterYear => filterYear' \in LoadedYears \cup {""}
    /\ filterTerm' # filterTerm => filterTerm' \in LoadedTerms \cup {""}
    /\ filterProgram' # filterProgram => filterProgram' \in LoadedPrograms \cup {""}

\* C9: each filter option list is the 'All' option followed by exactly one
\* option per distinct value of its field among the loaded reports, in
\* ascending order; the class list omits empty programs; a filter only ever
\* takes the value of an option of its list.
C9_FilterOptions == []OptionListsAsClaimed /\ [][FilterTakesOptionValue]_vars

\* three reports, two of them of the same year and one without a program,
\* with a year and a class chosen
C9_Witness ==
    /\ Len(allReports) = 3
    /\ allReports[1].academic_year = allReports[3].academic_year
    /\ allReports[1].academic_year # allReports[2].academic_year
    /\ allReports[2].program = ""
    /\ filterYear = allReports[1].academic_year
    /\ filterProgram = "JSS 1"

Matches(r) ==
    /\ filterYear = "" \/ r.academic_year = filterYear
    /\ filterTerm = "" \/ r.assessment_group = filterTerm
    /\ filterProgram = "" \/ r.program = filterProgram

\* C10: filteredReports holds exactly the loaded reports that match every
\* non-empty filter, each once, by academic year descending and within a
\* year by assessment group ascending; with no filter set it is a
\* permutation of all loaded reports.
C10_FilteredReports ==
    LET shown == filteredReports(allReports, filterYear, filterTerm, filterProgram).value
        loaded == {allReports[i] : i \in 1..Len(allReports)}
    IN  /\ {shown[i] : i \in 1..Len(shown)} = {r \in loaded : Matches(r)}
        /\ \A i, j \in 1..Len(shown) : i # j => shown[i] # shown[j]
        /\ \A i, j \in 1..Len(shown) :
              i < j =>
                 /\ localeCompare(shown[i].academic_year, shown[j].academic_year) >= 0
                 /\ shown[i].academic_year = shown[j].academic_year =>
                       localeCompare(shown[i].assessment_group,
                                     shown[j].assessment_group) <= 0
        /\ (filterYear = "" /\ filterTerm = "" /\ filterProgram = "") =>
              /\ Len(shown) = Len(allReports)
              /\ {shown[i] : i \in 1..Len(shown)} = loaded

\* a term is chosen, two of three reports match it, and they are shown in
\* another order than they are stored
C10_Witness ==
    LET shown == filteredReports(allReports, filterYear, filterTerm, filterProgram).value
    IN  /\ Len(allReports) = 3
        /\ filterTerm # ""
        /\ Len(shown) = 2
        /\ shown # ApplyFilters(allReports, filterYear, filterTerm, filterProgram)

\* ====================================================================
\* Properties of the School Term Result form
\* ====================================================================

\* the three fields the lookup needs are set
AllThreeSet(d) == d.assessment_group # "" /\ d.student # "" /\ d.academic_year # ""

\* the Program Enrollment requests a step sends
NewEnrollmentCalls == enrollmentCalls' \ enrollmentCalls

\* the School Settings requests a step sends
NewSettingsCalls == settingsCalls' \ settingsCalls

FieldChangeStartsLookup ==
    doc' # doc =>
       /\ skillTriggers' = skillTriggers + 1
       /\ IF AllThreeSet(doc')
          THEN /\ NewEnrollmentCalls =
                     {[trigger |-> skillTriggers', student |-> doc'.student,
                       academic_year |-> doc'.academic_year]}
               /\ enrollmentCalls \subseteq enrollmentCalls'
               /\ enrollmentSent'[skillTriggers'] = 1
          ELSE /\ enrollmentCalls' = enrollmentCalls
               /\ enrollmentSent' = enrollmentSent
       /\ settingsCalls' = settingsCalls
       /\ settingsSent' = settingsSent
       /\ psychomotor_skills' = psychomotor_skills
       /\ affective_skills' = affective_skills

\* C11: a change of student, academic_term, academic_year or
\* assessment_group runs populate_skills, which sends the Program Enrollment
\* request if and only if assessment_group, student and academic_year are
\* all non-empty after the change, whatever academic_term is; otherwise no
\* request is sent; the skill tables are not touched by the change.
C11_FieldChangeStartsLookup == [][FieldChangeStartsLookup]_vars

\* the latest field change cleared academic_term and started a lookup
C11_Witness ==
    /\ doc.academic_term = ""
    /\ \E call \in enrollmentCalls : call.trigger = skillTriggers
    /\ skillTriggers = 2
    /\ enrollmentSent[1] = 0

\* a School Settings request goes out only in the callback of a Program
\* Enrollment response that lists an enrollment, for its first program
SettingsAfterEnrollment ==
    NewSettingsCalls # {} =>
       \E call \in enrollmentCalls \ enrollmentCalls' :
          \E message \in EnrollmentMessages :
             /\ message # Null
             /\ Len(message[1]) > 0
             /\ EnrollmentResponds(call, message)
             /\ NewSettingsCalls = {[trigger |-> call.trigger,
                                     program |-> message[1][1].program]}

\* the Program Enrollment request asks for the student and year of the form
EnrollmentForTheForm ==
    \A call \in NewEnrollmentCalls :
       call.student = doc'.student /\ call.academic_year = doc'.academic_year

\* per field change: at most one request of each kind, the second never
\* without the first, and never while the first is unanswered
OneRequestOfEachKind ==
    /\ \A t \in 1..MaxTriggers :
          /\ enrollmentSent[t] <= 1
          /\ settingsSent[t] <= enrollmentSent[t]
    /\ \A e \in enrollmentCalls : settingsSent[e.trigger] = 0

\* C12: the School Settings request is sent only after the Program
\* Enrollment response has arrived with at least one enrollment, for the
\* program of the first enrollment; the Program Enrollment request asks for
\* the form's student and academic year; per trigger at most one request of
\* each kind is sent.
C12_LookupsInSequence ==
    /\ []OneRequestOfEachKind
    /\ [][SettingsAfterEnrollment /\ EnrollmentForTheForm]_vars

\* two field changes, each with both of its requests sent
C12_Witness ==
    /\ settingsSent[1] = 1
    /\ settingsSent[2] = 1
    /\ \E a, b \in settingsCalls : a.trigger = 1 /\ b.trigger = 2

\* a program table of School Settings lists the program
Listed(table, program) ==
    table # Null /\ \E i \in 1..Len(table[1]) : table[1][i].program = program

\* one row per skill of a list of School Settings, in its order
RowsOf(skills) ==
    IF skills = Null THEN <<>>
    ELSE [i \in 1..Len(skills[1]) |-> [skill |-> skills[1][i].skill_name]]

\* the tables and the message after a lookup that found the level
PopulatedAs(level, psychomotor, affective, program) ==
    /\ psychomotor_skills' = RowsOf(psychomotor)
    /\ affective_skills' = RowsOf(affective)
    /\ Len(msgprints') = 1
    /\ msgprints'[1].text = "Skills populated"
    /\ msgprints'[1].school_level = level
    /\ msgprints'[1].program = program
    /\ msgprints'[1].skill_count =
          Len(psychomotor_skills') + Len(affective_skills')

SettingsPopulateTables ==
    \A call \in settingsCalls \ settingsCalls' :
       schoolSettings # Null =>
          /\ Listed(schoolSettings[1].primary_programs, call.program) =>
                PopulatedAs("Primary",
                            schoolSettings[1].primary_psychomotor_skills,
                            schoolSettings[1].primary_affective_skills,
                            call.program)
          /\ (/\ ~Listed(schoolSettings[1].primary_programs, call.program)
              /\ Listed(schoolSettings[1].secondary_programs, call.program)) =>
                PopulatedAs("Secondary",
                            schoolSettings[1].secondary_psychomotor_skills,
                            schoolSettings[1].secondary_affective_skills,
                            call.program)

\* C13: when the enrolled program is in primary_programs (respectively only
\* in secondary_programs) the School Settings callback replaces both skill
\* tables by one row per entry of the primary (respectively secondary)
\* psychomotor and affective skill lists, in their order, with skill =
\* skill_name and no earlier row kept; a program in both lists counts as
\* Primary; the count in the message is the number of rows added.
C13_TablesFollowSchoolLevel == [][SettingsPopulateTables]_vars

\* a program of both lists was populated as Primary, over saved rows
C13_Witness ==
    /\ schoolSettings # Null
    /\ Len(msgprints) = 1
    /\ msgprints[1].school_level = "Primary"
    /\ Listed(schoolSettings[1].secondary_programs, msgprints[1].program)
    /\ msgprints[1].skill_count = 3
    /\ psychomotor_skills = <<[skill |-> "Handwriting"], [skill |-> "Sports"]>>
    /\ affective_skills = <<[skill |-> "Neatness"]>>

\* this step shows one message and touches neither table nor sends a request
OnlyAMessage ==
    /\ Len(msgprints') = 1
    /\ msgprints'[1].text # "Skills populated"
    /\ psychomotor_skills' = psychomotor_skills
    /\ affective_skills' = affective_skills
    /\ NewEnrollmentCalls = {}
    /\ NewSettingsCalls = {}
    /\ enrollmentSent' = enrollmentSent
    /\ settingsSent' = settingsSent

\* the Program Enrollment response lists no enrollment
NoEnrollmentFound ==
    \E call \in enrollmentCalls \ enrollmentCalls' :
       \E message \in {Null, Some(<<>>)} : EnrollmentResponds(call, message)

\* School Settings is not returned, or lists the program nowhere
LevelNotResolved ==
    \E call \in settingsCalls \ settingsCalls' :
       \/ schoolSettings = Null
       \/ /\ ~Listed(schoolSettings[1].primary_programs, call.program)
          /\ ~Listed(schoolSettings[1].secondary_programs, call.program)

\* C14: when no Program Enrollment is found, School Settings is not
\* returned, or the program is in neither program list, the callback shows
\* exactly one message, leaves both skill tables as they were and sends no
\* request.
C14_UnresolvedLevelOnlyTells ==
    [][(NoEnrollmentFound \/ LevelNotResolved) => OnlyAMessage]_vars

\* the program is in neither list: one message, the saved rows still there
C14_Witness ==
    /\ schoolSettings # Null
    /\ Len(msgprints) = 1
    /\ msgprints[1].text = "Program not found in Primary or Secondary School Programs"
    /\ msgprints[1].program = "Nursery 1"
    /\ psychomotor_skills = <<[skill |-> "Drawing"]>>
    /\ settingsCalls = {}
    /\ enrollmentCalls = {}

\* ====================================================================
\* Properties of printing on the Reports page
\* ====================================================================

\* the print-format request failed: no answer, an HTTP error status, a body
\* that is not JSON, or a server exception
FormatRequestFailed(response) ==
    \/ ~response.net_ok
    \/ response.status < 200 \/ response.status > 299
    \/ ~response.is_json
    \/ response.exc_type # "" \/ response.exception # ""

\* the format the print view is to be opened with
ClaimedFormat(program, response) ==
    IF FormatRequestFailed(response) \/ ~response.has_message THEN "Standard"
    ELSE IF isSecondaryProgram(Chars(program))
         THEN IF response.message.secondary_print_format = "" THEN "Standard"
              ELSE response.message.secondary_print_format
         ELSE IF response.message.primary_print_format = "" THEN "Standard"
              ELSE response.message.primary_print_format

PrintOpensClaimedView ==
    \A response \in FormatResponses :
       PrintResponds(response) =>
          /\ printViews' = <<[name |-> Head(printsInFlight).name,
                              format |-> ClaimedFormat(Head(printsInFlight).program,
                                                       response)]>>
          /\ alertType' = "success"
          /\ alertMessage'.text = "Opening print preview..."
          /\ Head(printsInFlight).name \notin printingReports'

\* C15: printReport opens the print view of the report with
\* secondary_print_format when isSecondaryProgram classifies the report's
\* program as secondary and with primary_print_format otherwise, each
\* 'Standard' when not configured; when the print-format request fails the
\* format is 'Standard', the view is still opened and the alert is the
\* success alert.
C15_PrintFormatByProgram ==
    /\ [][PrintOpensClaimedView]_vars
    /\ [][printViews' # <<>> => \E response \in FormatResponses :
                                    PrintResponds(response)]_vars

\* the report of a secondary class was opened with the secondary format
C15_Witness ==
    /\ Len(printViews) = 1
    /\ printViews[1].name = "STR-2"
    /\ printViews[1].format = "Secondary Result"
    /\ alertType = "success"
    /\ alertMessage.text = "Opening print preview..."

\* ====================================================================
\* Properties of the awards page
\* ====================================================================

\* a failed load: the message of the error or the default text is shown,
\* the awards stay, both flags are reset and nothing is sent
AwardsFailureHandled ==
    \A response \in AwardResponses :
       (response.threw /\ AwardsRespond(response)) =>
          /\ errorMessage' = IF response.message # "" THEN response.message
                             ELSE "Failed to load awards. Please try again."
          /\ allAwards' = allAwards
          /\ ~awardsIsLoading'
          /\ ~awardsIsRefreshing'
          /\ awardRequests' = awardRequests

\* every load clears the message when it starts
AwardsLoadClearsError == awardRequests' # awardRequests => errorMessage' = ""

\* a load that succeeds sets no message and resets both flags
AwardsSuccessSetsNoError ==
    \A response \in AwardResponses :
       (~response.threw /\ AwardsRespond(response)) =>
          /\ errorMessage' = errorMessage
          /\ ~awardsIsLoading'
          /\ ~awardsIsRefreshing'
          /\ awardRequests' = awardRequests

C17_FlagsFollowLoads ==
    /\ isRefreshing <=> (loadsInFlight > 0)
    /\ isLoading => (loadsInFlight > 0 /\ Len(allReports) = 0)
    /\ loadsInFlight = 0 => (~isLoading /\ ~isRefreshing)

\* ====================================================================
\* Properties of the Fees table
\* ====================================================================

\* the rank of a status in the table
ClaimedRank(status) ==
    IF status = "Overdue" THEN 1
    ELSE IF status = "Unpaid" THEN 2
    ELSE IF status = "Partly Paid" THEN 3
    ELSE IF status = "Paid" THEN 4
    ELSE 5

\* where the server listed the invoice of a row
ServerPosition(response, row) ==
    CHOOSE k \in 1..Len(response) : response[k].invoice = row.invoice

\* the rows are the invoices of the response, each once, by rank and within
\* a rank in the order of the response
RowsOrdered(response, rows) ==
    /\ Len(rows) = Len(response)
    /\ \A k \in 1..Len(response) :
          Cardinality({i \in 1..Len(rows) :
                          /\ rows[i].invoice = response[k].invoice
                          /\ rows[i].status = response[k].status}) = 1
    /\ \A i, j \in 1..Len(rows) :
          i < j =>
             /\ ClaimedRank(rows[i].status) <= ClaimedRank(rows[j].status)
             /\ rows[i].status = rows[j].status =>
                   ServerPosition(response, rows[i]) < ServerPosition(response, rows[j])

\* C19: the Fees table rows are the fetched invoices ordered Overdue, Unpaid,
\* Partly Paid, Paid, any other status last; every fetched invoice appears
\* exactly once and invoices of equal status keep the order of the response.
C19_TableOrderedByStatus ==
    [][\A response \in StatusResponses :
          InvoicesLoaded(response) => RowsOrdered(response, tableData'.rows)]_vars

\* three invoices arrived as Paid, Overdue, Paid and are shown Overdue first,
\* the two Paid ones in the order of the response
C19_Witness ==
    /\ Len(tableData.rows) = 3
    /\ tableData.rows[1].invoice = "INV-2" /\ tableData.rows[1].status = "Overdue"
    /\ tableData.rows[2].invoice = "INV-1" /\ tableData.rows[2].status = "Paid"
    /\ tableData.rows[3].invoice = "INV-3" /\ tableData.rows[3].status = "Paid"

\* ====================================================================
\* Properties of the Bulk School Term Class Result Generator form
\* ====================================================================

\* a new document is saved in this step
NewDocumentSaved == bulkIsNew /\ ~bulkIsNew'

\* a saved document is saved again in this step
SavedDocumentSaved == ~bulkIsNew /\ bulkSaves' # bulkSaves

\* C18: the confirmation naming the student group is shown before a new
\* document is saved and the save does not go through until the user has
\* answered it; validating a saved document shows no such message.
C18_SaveWaitsForConfirmation ==
    [][/\ NewDocumentSaved =>
             (bulkMsgprint = "closed" /\ bulkMsgGroup = bulkDoc.student_group)
       /\ SavedDocumentSaved =>
             (bulkMsgprint' = bulkMsgprint /\ bulkMsgGroup' = bulkMsgGroup)]_vars

\* ====================================================================
\* Properties of isSecondaryProgram
\* ====================================================================

\* the keywords of a secondary program
ClaimedKeywords ==
    {<<"j", "s", "s">>, <<"s", "s">>,
     <<"s", "e", "c", "o", "n", "d", "a", "r", "y">>,
     <<"h", "i", "g", "h", " ", "s", "c", "h", "o", "o", "l">>,
     <<"s", "e", "n", "i", "o", "r">>,
     <<"j", "u", "n", "i", "o", "r", " ", "s", "e", "c", "o", "n", "d", "a", "r", "y">>}

\* the keyword stands in the name from position i on, upper or lower case
KeywordAt(name, keyword, i) ==
    /\ i + Len(keyword) - 1 <= Len(name)
    /\ \A j \in 1..Len(keyword) :
          \/ name[i + j - 1] = keyword[j]
          \/ LowerChar(name[i + j - 1]) = keyword[j]

ContainsKeyword(name) ==
    \E keyword \in ClaimedKeywords : \E i \in 1..Len(name) :
       KeywordAt(name, keyword, i)

\* C20: isSecondaryProgram returns true exactly when the program name, its
\* letters taken in lower case, contains one of 'jss', 'ss', 'secondary',
\* 'high school', 'senior', 'junior secondary', and false for an empty or
\* missing program.
C20_SecondaryByKeyword ==
    isSecondary # Null =>
       /\ isSecondary[1] = (programName # <<>> /\ ContainsKeyword(programName))
       /\ programName = <<>> => isSecondary[1] = FALSE

\* 'Class 3' holds 'ss' and is classified secondary
C20_Witness ==
    /\ programName = <<"C", "l", "a", "s", "s", " ", "3">>
    /\ isSecondary = Some(TRUE)

\* ====================================================================
\* Properties of the Assessment Plan form
\* ====================================================================

\* the table holds one row per criterion, in the order of the criteria,
\* with assessment_criteria and weightage copied, and no other row
RowsOfPolicy(table, criteria) ==
    /\ Len(table) = Len(criteria)
    /\ \A i \in 1..Len(criteria) :
          /\ table[i].assessment_criteria = criteria[i].assessment_criteria
          /\ table[i].weightage = criteria[i].weightage

\* setting student_group to a value that is not empty sends one lookup for
\* that value and writes nothing to the form
GroupSetLooksUp ==
    \A value \in PlanGroups \ {""} :
       student_group(value) =>
          /\ \E call \in policyCalls' \ policyCalls :
                /\ call.student_group = value
                /\ policyCalls' = policyCalls \cup {call}
          /\ planDoc'.maximum_assessment_score = planDoc.maximum_assessment_score
          /\ assessment_criteria' = assessment_criteria
          /\ planCleared' = {}

\* a policy that comes back is written to the form
PolicyWritten ==
    \A call \in policyCalls : \A message \in PolicyMessages \ {Null} :
       PolicyResponds(call, message) =>
          /\ planDoc'.maximum_assessment_score = message[1].max_assessment_score
          /\ RowsOfPolicy(assessment_criteria', message[1].criteria)

\* clearing student_group, or a lookup that returns no policy, leaves the
\* form alone
NothingWritten ==
    (\/ student_group("")
     \/ \E call \in policyCalls : PolicyResponds(call, Null)) =>
       /\ planDoc'.maximum_assessment_score = planDoc.maximum_assessment_score
       /\ assessment_criteria' = assessment_criteria
       /\ planCleared' = {}
       /\ policyCalls' \subseteq policyCalls

\* C21: when student_group is set to a value that is not empty and the
\* lookup returns a policy, maximum_assessment_score becomes the policy's
\* max_assessment_score and the table holds exactly one row per criterion of
\* the policy, in order, and none of the earlier rows; when student_group is
\* cleared or the lookup returns no policy, the score and the table stay as
\* they are and no table is cleared.
C21_PolicyFillsPlan ==
    [][GroupSetLooksUp /\ PolicyWritten /\ NothingWritten]_vars

\* a policy of two criteria has replaced the row the plan was opened with
C21_Witness ==
    /\ planCleared = {"assessment_criteria"}
    /\ planDoc.maximum_assessment_score = 40
    /\ Len(assessment_criteria) = 2
    /\ assessment_criteria[1].assessment_criteria = "Test"
    /\ assessment_criteria[2].assessment_criteria = "Exam"

\* ====================================================================
\* Properties of the payment request and its result
\* ====================================================================

\* the toast of a failed payment initiation
PaymentErrorToast(toast) == toast.title \in {"Payment Error", "Error"}

\* a result without success, or an exception: an error toast, no redirect,
\* isProcessing reset, the entries of the dialog kept
PaymentFailureHandled ==
    \A outcome \in PaymentOutcomes \ {"success"} :
       \A authorization_url \in AuthorizationUrls :
          proceedToPaymentSettled(outcome, authorization_url) =>
             /\ Len(toasts') = 1 /\ PaymentErrorToast(toasts'[1])
             /\ redirected' = redirected /\ href' = href
             /\ isProcessing' = FALSE
             /\ paymentType' = paymentType
             /\ paymentAmount' = paymentAmount
             /\ billingDetails' = billingDetails

\* a result with success: the browser goes to the address of the result,
\* with isProcessing true since the request was sent
PaymentSuccessRedirects ==
    \A authorization_url \in AuthorizationUrls :
       proceedToPaymentSettled("success", authorization_url) =>
          /\ redirected' /\ href' = Some(authorization_url)
          /\ isProcessing /\ isProcessing'
          /\ toasts' = <<>>

\* isProcessing stays true from the request to its result
ProcessingUntilResult ==
    (pendingPayments # <<>> /\ pendingPayments' = pendingPayments) =>
       (isProcessing /\ isProcessing')

\* C22: when a payment initiation fails (success = false, or the call
\* throws), proceedToPayment shows an error toast, does not redirect, resets
\* isProcessing to false and keeps the payment type, the amount and the
\* contact fields; when it succeeds the browser is redirected to the returned
\* authorization_url and isProcessing is not reset before the redirect.
C22_PaymentResultHandled ==
    [][PaymentFailureHandled /\ PaymentSuccessRedirects /\ ProcessingUntilResult]_vars

\* a partial payment has been refused: the dialog is open with its entries
C22_Witness ==
    /\ Len(toasts) = 1 /\ PaymentErrorToast(toasts[1])
    /\ ~isProcessing /\ ~redirected
    /\ showPaymentDialog
    /\ paymentType = "Partial" /\ paymentAmount = Num(1)
    /\ billingDetails.email = "parent@home.ng"

\* the dialog has emitted the event in the latest step
Emitted(event) == \E i \in 1..Len(emitted) : emitted[i].event = event

\* C23: when a payment succeeds the payment dialog emits 'success', and the
\* Fees page responds to that event by reloading the invoice list and
\* showing a 'Payment successful!' toast.
C23_SuccessEventReloads ==
    [][\A authorization_url \in AuthorizationUrls :
          proceedToPaymentSettled("success", authorization_url) =>
             /\ Emitted("success")'
             /\ invoicesResource' = onPaymentSuccess(invoicesResource).invoicesResource
             /\ toasts' = onPaymentSuccess(invoicesResource).toasts]_vars

\* a request is sent by the step
RequestSent == Len(pendingPayments') > Len(pendingPayments)

\* isProcessing is reset only by a result that is a failure
ResetOnlyByFailure ==
    (isProcessing /\ ~isProcessing') =>
       \E outcome \in PaymentOutcomes \ {"success"} :
          \E authorization_url \in AuthorizationUrls :
             proceedToPaymentSettled(outcome, authorization_url)

\* C24: at most one initiate_payment request is outstanding per payment
\* dialog at any time: while isProcessing is true the Proceed and Cancel
\* buttons are disabled, so a request is sent only with none outstanding and
\* isProcessing false, and isProcessing is reset only when a request failed.
C24_OneRequestOutstanding ==
    [][/\ Len(pendingPayments) <= 1 /\ Len(pendingPayments') <= 1
       /\ isProcessing => (ProceedDisabled /\ CancelDisabled)
       /\ (ClickProceed \/ ClickCancel) => ~isProcessing
       /\ RequestSent => (ClickProceed /\ pendingPayments = <<>> /\ ~isProcessing)
       /\ ResetOnlyByFailure]_vars

\* a request is outstanding and the form itself is valid: the buttons are
\* disabled by isProcessing alone
C24_Witness ==
    /\ DialogOpen
    /\ Len(pendingPayments) = 1 /\ isProcessing
    /\ isFormValid(paymentType, billingDetails, paymentAmount, currentRow,
                   paymentError).valid
    /\ ProceedDisabled /\ CancelDisabled

\* ====================================================================
\* Properties of the invoice a payment is requested for
\* ====================================================================

\* the invoice is Paid in the list loaded last
PaidInList(invoice) ==
    \E i \in 1..Len(tableData.rows) :
       /\ tableData.rows[i].invoice = invoice
       /\ tableData.rows[i].status = "Paid"

\* C25: the payment dialog is opened only from a row whose status is not
\* 'Paid', so every initiate_payment request is for an invoice that is not
\* 'Paid' in the invoice list loaded last.
C25_RequestsForUnpaidInvoices ==
    [][/\ \A i \in 1..Len(tableData.rows) :
             openPaymentDialog(tableData.rows[i]) =>
                tableData.rows[i].status # "Paid"
       /\ RequestSent =>
             ~PaidInList(pendingPayments'[Len(pendingPayments')].sales_invoice)]_vars

\* ====================================================================
\* Properties of the alerts of the Reports page
\* ====================================================================

\* The timers of showAlert all run for 5 seconds, so they fire in the order
\* they were started: the one that fires is the oldest of the alertTimers
\* pending.  The alert on the page was set by the latest showAlert, whose
\* timer is the newest.

\* the timer that fires is the one of the alert on the page
OwnTimerFires == AlertTimerFires /\ alertTimers = 1

\* C26: every alert shown by showAlert stays on the page for its 5 seconds
\* unless the user dismisses it, and is then cleared: an alert leaves the
\* page only by its own timer or by the x button, never by the timer of an
\* earlier alert.
C26_AlertKeepsItsTime ==
    [][/\ (alertMessage # NoAlert /\ alertMessage' = NoAlert) =>
             (OwnTimerFires \/ DismissAlert)
       /\ OwnTimerFires => alertMessage' = NoAlert]_vars

====
